---- MODULE Spec2Model ----
(***************************************************************************)
(* Model of the graph-algorithm scripts under src/bin: the shared element  *)
(* queries, Dijkstra, A*, Bellman-Ford, Prim, Kruskal with its DFS cycle   *)
(* check, whole-graph cycle detection and Ford-Fulkerson maximum flow.     *)
(*                                                                         *)
(* A graph is the element list split in two: `nodes` (the node ids in      *)
(* element order) and `edges` (the edge elements in element order, each a  *)
(* record standing for the element's data dictionary).  A Python dict is a *)
(* function whose DOMAIN is the set of keys present, so that a missing key *)
(* differs from a key holding an empty list.                               *)
(***************************************************************************)
EXTENDS Integers, Sequences, FiniteSets, TLC

VARIABLES
    algorithm,      \* the script whose entry point is being run
    nodes,          \* get_nodes(elements): node ids in element order
    edges,          \* get_edges(elements): edge data dicts in element order
    is_directed,    \* the is_directed argument of the call
    source_id,      \* the source_id / start argument of the call
    target_id,      \* the target_id / from_id argument of the call
    heuristic,      \* A*: heuristic(elements, id, target_id) for every id
    node_data,      \* per node, the scratch dict the running algorithm owns
    pc,             \* position of the running function
    raised,         \* "None", or the exception the call ended with
    all_paths,      \* the all_paths list filled by get_*_paths
    pass_i,         \* Bellman-Ford: i of `for i in range(len(nodes) - 1)`
    edge_i,         \* Bellman-Ford: position in `for edge in get_edges(...)`
    updated,        \* Bellman-Ford: the updated flag of the pass
    sorted_edges,   \* Kruskal: the local list `edges`, sorted, being popped
    minimum_spanning_tree_edges, \* Kruskal: the list being built and returned
    edge_visited,   \* Prim: per edge id, the edge's scratch `visited` flag
    hash_order,     \* iteration order of list(set(...)) for this process
    todo_list,      \* DFS work list
    visited,        \* DFS set of discovered node ids
    start_i,        \* cycle_detection: position in `for node in get_nodes(...)`
    cycle,          \* cycle_detection: the value returned
    residual_network, \* max flow: edge elements of the residual network
    augmenting_paths, \* max flow: result of the last search_augmenting_flow
    iter,           \* max flow: number of augmentations done
    parents,        \* UnionFind: self.parents, indexed by element
    parent_map,     \* UnionFindDict: self.parent_map
    size_map,       \* UnionFindDict: self.size_map
    unions,         \* the pairs {x, y} of the union(x, y) calls made so far
    result          \* the value the last UnionFind call returned

vars == <<algorithm, nodes, edges, is_directed, source_id, target_id, heuristic, node_data,
          pc, raised, all_paths, pass_i, edge_i, updated, sorted_edges,
          minimum_spanning_tree_edges, edge_visited, hash_order, todo_list,
          visited, start_i, cycle, residual_network, augmenting_paths, iter,
          parents, parent_map, size_map, unions, result>>

graphVars == <<algorithm, nodes, edges, is_directed, heuristic, hash_order>>
bfVars == <<pass_i, edge_i, updated>>
mstVars == <<sorted_edges, minimum_spanning_tree_edges, edge_visited>>
dfsVars == <<todo_list, visited, start_i, cycle>>
flowVars == <<residual_network, augmenting_paths, iter>>
ufVars == <<parents, parent_map, size_map, unions, result>>

-----------------------------------------------------------------------------
(* Bounds of the model. *)

\* Most edges an input graph of the shortest-path models holds.
MaxEdges == 3
\* Largest edge weight of an input graph.
MaxWeight == 3
\* Most edges, and the largest weight, of a four-node Bellman-Ford input.
PassMaxEdges == 3
PassMaxWeight == 2
\* Most edges of an input of calc_prim run alone.
PrimMaxEdges == 4
\* Most edges of a network whose searches are followed step by step.
SearchMaxEdges == 5
\* The lowest weight of an input with negative weights is -MaxNegative.
MaxNegative == 1
\* Largest weight of an input with negative weights.
NegMaxWeight == 2
\* Largest value a heuristic returns.
MaxHeuristic == 1
\* Most edges and largest weight of an input graph of the spanning-tree model.
MstMaxEdges == 5
MstMaxWeight == 2
\* Most edges of an input graph of the cycle-detection model.
CycMaxEdges == 4
\* Most edges and largest capacity of an input network of the max-flow model.
FlowMaxEdges == 7
FlowMaxWeight == 2

\* The n of UnionFind(n), and the number of elements inserted into
\* UnionFindDict.
UfN == 4

\* The most iterations calc_max_flow allows.
max_iter == 200

\* The counter value at which max_flow of dijkstra.py leaves its loop.
counter_limit == 20

\* Most two-edge paths of a fan network given to max_flow of dijkstra.py.
FanWidth == 21

\* sys.maxsize, the "infinity" of every script.  Python integers do not
\* overflow; the model keeps the value far above every path sum and within
\* the range of the model checker's integers.
maxsize == 1000000000

-----------------------------------------------------------------------------
(* Python dictionaries and lists. *)

EmptyDict == [k \in {} |-> 0]

\* d.get(k, default)
Get(d, k, default) == IF k \in DOMAIN d THEN d[k] ELSE default

\* d[k] = v
Put(d, k, v) == [y \in DOMAIN d \cup {k} |-> IF y = k THEN v ELSE d[y]]

Range(s) == {s[i] : i \in DOMAIN s}

\* s[::-1]
Reverse(s) == [i \in 1..Len(s) |-> s[Len(s) + 1 - i]]

RECURSIVE SetToSeq(_)
\* The members of a set of integers, ascending.
SetToSeq(S) ==
    IF S = {} THEN <<>>
    ELSE LET m == CHOOSE x \in S : \A y \in S : x <= y
         IN <<m>> \o SetToSeq(S \ {m})

RECURSIVE Sum(_, _)
Sum(f, S) ==
    IF S = {} THEN 0
    ELSE LET x == CHOOSE y \in S : TRUE IN f[x] + Sum(f, S \ {x})

-----------------------------------------------------------------------------
(* Input graphs: every choice of at most maxE of the candidate edges       *)
(* `slots` (ordered pairs of node ids, in element order), each with a      *)
(* weight of `weights`.  The id of an edge is the index of its slot.       *)

MkEdges(slots, S, w) ==
    LET idx == SetToSeq(S)
    IN [i \in 1..Len(idx) |->
          [id |-> idx[i], source |-> slots[idx[i]][1],
           target |-> slots[idx[i]][2], weight |-> w[idx[i]]]]

Graphs(slots, maxE, weights) ==
    UNION {{MkEdges(slots, S, w) : w \in [S -> weights]} :
              S \in {T \in SUBSET (1..Len(slots)) : Cardinality(T) <= maxE}}

\* Three nodes and every ordered pair of them, self-loops included; two
\* slots of opposite direction are parallel edges in undirected mode.
SpNodes == <<1, 2, 3>>
SpSlots == << <<2, 3>>, <<1, 2>>, <<3, 1>>, <<1, 3>>, <<3, 2>>, <<2, 1>>,
              <<1, 1>>, <<2, 2>>, <<3, 3>> >>
\* An id that matches no element.
AbsentIds == {99}

\* Five nodes for the spanning-tree builders: a triangle 3-4-5, a pendant
\* pair 1-2, links between them, a parallel edge and a self-loop.
MstNodes == <<1, 2, 3, 4, 5>>
MstSlots == << <<1, 2>>, <<3, 4>>, <<3, 5>>, <<4, 5>>, <<2, 3>>, <<2, 1>>,
               <<1, 3>>, <<4, 4>> >>

\* Four nodes for dfs.py: a path 1-2-3, a chord, a far pair 3-4, a second
\* edge 2-1 over the pair 1-2, a self-loop, and 4-1.
CycNodes == <<1, 2, 3, 4>>
CycSlots == << <<1, 2>>, <<2, 3>>, <<1, 3>>, <<3, 4>>, <<2, 1>>, <<4, 4>>,
               <<4, 1>>, <<4, 3>> >>

\* Six nodes for the flow network, source 1 and target 6.  Slots 1 to 7 are
\* the network 1->4->3->6, 1->2->3, 2->5->6, in which the search first takes
\* 1->2->3->6 and then has to take the flow back off 2->3; 3->2 runs against
\* 2->3 and 6->1 leads back into the source.
FlowNodes == <<1, 2, 3, 4, 5, 6>>
FlowSlots == << <<1, 4>>, <<1, 2>>, <<2, 5>>, <<2, 3>>, <<3, 6>>, <<4, 3>>,
                <<5, 6>>, <<3, 2>>, <<6, 1>> >>

-----------------------------------------------------------------------------
(* Element queries (the same helpers are repeated in every script). *)

NodeSet == Range(nodes)

\* has_node that finds an element for every id.
has_node_any_id(id) == TRUE

\* get_element_by_id(...) is not None, for a node id
has_node(id) == id \in NodeSet

\* the edge is skipped as impassable by get_neighborhood_ids
impassable(e) == Get(e, "weight", 1) = 0 \/ Get(e, "current_weight", 1) = 0

\* get_neighborhood_ids, as the set the list is built from
get_neighborhood_ids(E, node_id, directed) ==
    {E[i].target : i \in {j \in DOMAIN E : ~impassable(E[j]) /\ E[j].source = node_id}}
    \cup
    {E[i].source : i \in {j \in DOMAIN E :
                            ~impassable(E[j]) /\ ~directed /\ E[j].target = node_id}}

between(e, source, target, directed) ==
    /\ Get(e, "weight", 1) # 0
    /\ \/ e.source = source /\ e.target = target
       \/ ~directed /\ e.source = target /\ e.target = source

get_edges_between(E, source, target, directed) ==
    SelectSeq(E, LAMBDA e : between(e, source, target, directed))

RECURSIVE min_weight_loop(_, _, _)
min_weight_loop(es, min_weight, min_weight_edges) ==
    IF es = <<>> THEN min_weight_edges
    ELSE LET w == Get(Head(es), "weight", 1)
         IN IF w = min_weight
            THEN min_weight_loop(Tail(es), min_weight,
                                 Append(min_weight_edges, Head(es)))
            ELSE IF w < min_weight
            THEN min_weight_loop(Tail(es), w, <<Head(es)>>)
            ELSE min_weight_loop(Tail(es), min_weight, min_weight_edges)

get_minimum_weight_edges(es) == min_weight_loop(es, maxsize, <<>>)

get_ids(es) == [i \in 1..Len(es) |-> es[i].id]

RECURSIVE min_distance_loop(_, _, _, _)
min_distance_loop(nd, ns, min_distance, min_distance_nodes) ==
    IF ns = <<>> THEN min_distance_nodes
    ELSE LET n == Head(ns)
         IN IF nd[n].visited
            THEN min_distance_loop(nd, Tail(ns), min_distance, min_distance_nodes)
            ELSE IF nd[n].distance = min_distance
            THEN min_distance_loop(nd, Tail(ns), min_distance,
                                   Append(min_distance_nodes, n))
            ELSE IF nd[n].distance < min_distance
            THEN min_distance_loop(nd, Tail(ns), nd[n].distance, <<n>>)
            ELSE min_distance_loop(nd, Tail(ns), min_distance, min_distance_nodes)

get_minimum_distance_nodes_from_unvisited(nd) ==
    min_distance_loop(nd, nodes, maxsize, <<>>)

exists_unvisited_node(nd) == \E n \in NodeSet : nd[n].visited = FALSE

-----------------------------------------------------------------------------
(* dijkstra.py: calc_dijkstra and get_dijkstra_paths. *)

\* STEP1: a fresh scratch dict for every node.
dijkstra_step1(src) ==
    [n \in NodeSet |->
        [distance |-> IF n = src THEN 0 ELSE maxsize, visited |-> FALSE]]

\* The minimum-weight edges between two adjacent nodes.
link_edges(a, b) ==
    get_minimum_weight_edges(get_edges_between(edges, a, b, is_directed))

\* STEP2: the source enters L; every neighbour v of the source is labelled
\* with the weight of the lightest edge and points at the source.
dijkstra_step2(nd, src) ==
    LET nd1 == [nd EXCEPT ![src] = Put(@, "visited", TRUE)]
        nbrs == get_neighborhood_ids(edges, src, is_directed)
    IN [v \in NodeSet |->
          IF v \in nbrs
          THEN LET es == link_edges(src, v)
                   weight == Get(es[1], "weight", 1)
               IN Put(Put(Put(nd1[v], "distance", weight),
                          "pointer_nodes", <<src>>),
                      "pointer_edges", get_ids(es))
          ELSE nd1[v]]

\* dijkstra_relax with the shorter route's pointers appended to the old ones
\* instead of replacing them.
dijkstra_relax_keeps_pointers(du, dv, v_id, es) ==
    LET weight == es[1].weight
        new == [distance |-> dv.distance + weight, visited |-> du.visited,
                pointer_nodes |-> Append(Get(du, "pointer_nodes", <<>>), v_id),
                pointer_edges |-> Get(du, "pointer_edges", <<>>) \o get_ids(es)]
    IN IF du.distance < dv.distance + weight THEN du ELSE new

\* dijkstra_relax that counts every edge as 1.
dijkstra_relax_counts_hops(du, dv, v_id, es) ==
    IF du.distance < dv.distance + 1
    THEN du
    ELSE IF du.distance = dv.distance + 1
    THEN Put(Put(du, "pointer_nodes", Append(du.pointer_nodes, v_id)),
             "pointer_edges", du.pointer_edges \o get_ids(es))
    ELSE Put(Put(Put(du, "distance", dv.distance + 1),
                 "pointer_nodes", <<v_id>>),
             "pointer_edges", get_ids(es))

\* 3-2: the three-way comparison for the unvisited neighbour u of v.
dijkstra_relax(du, dv, v_id, es) ==
    LET weight == es[1].weight
    IN IF du.distance < dv.distance + weight
       THEN du
       ELSE IF du.distance = dv.distance + weight
       THEN Put(Put(du, "pointer_nodes", Append(du.pointer_nodes, v_id)),
                "pointer_edges", du.pointer_edges \o get_ids(es))
       ELSE Put(Put(Put(du, "distance", dv.distance + weight),
                    "pointer_nodes", <<v_id>>),
                "pointer_edges", get_ids(es))

\* STEP3: one iteration of the while loop.
dijkstra_step3(nd) ==
    LET v_id == get_minimum_distance_nodes_from_unvisited(nd)[1]
        nd1 == [nd EXCEPT ![v_id] = Put(@, "visited", TRUE)]
        nbrs == get_neighborhood_ids(edges, v_id, is_directed)
    IN [u \in NodeSet |->
          IF u \in nbrs /\ ~nd1[u].visited
          THEN dijkstra_relax(nd1[u], nd1[v_id], v_id, link_edges(v_id, u))
          ELSE nd1[u]]

RECURSIVE get_paths(_, _, _)
\* get_dijkstra_paths (get_paths, get_bellman_ford_paths and get_mst_paths
\* are the same function over another scratch key).  The result is the
\* all_paths list and the exception that ended the call: a from_id already
\* on the path being built repeats for ever and ends in RecursionError.
get_paths(nd, current_paths, from_id) ==
    IF ~has_node(from_id)
    THEN [raised |-> "ValueError", all_paths |-> <<>>]
    ELSE IF from_id \in Range(current_paths)
    THEN [raised |-> "RecursionError", all_paths |-> <<>>]
    ELSE LET cp == Append(current_paths, from_id)
             pointer_nodes == Get(nd[from_id], "pointer_nodes", <<>>)
             sub == [i \in DOMAIN pointer_nodes |->
                        get_paths(nd, cp, pointer_nodes[i])]
             bad == {i \in DOMAIN sub : sub[i].raised # "None"}
             first_bad == CHOOSE i \in bad : \A j \in bad : i <= j
             upto == IF bad = {} THEN Len(sub) ELSE first_bad
             RECURSIVE cat(_)
             cat(i) == IF i = 0 THEN <<>> ELSE cat(i - 1) \o sub[i].all_paths
         IN IF Len(pointer_nodes) = 0
            THEN [raised |-> "None", all_paths |-> <<Reverse(cp)>>]
            ELSE [raised |-> IF bad = {} THEN "None" ELSE sub[first_bad].raised,
                  all_paths |-> cat(upto)]

\* calc_dijkstra, up to STEP1.
DijkstraStep1 ==
    /\ pc = "start"
    /\ IF ~has_node(source_id)
       THEN /\ raised' = "ValueError"
            /\ pc' = "error"
            /\ UNCHANGED node_data
       ELSE /\ node_data' = dijkstra_step1(source_id)
            /\ pc' = "step2"
            /\ UNCHANGED raised
    /\ UNCHANGED <<graphVars, ufVars, source_id, target_id, all_paths, bfVars, mstVars,
                   dfsVars, flowVars>>

DijkstraStep2 ==
    /\ pc = "step2"
    /\ node_data' = dijkstra_step2(node_data, source_id)
    /\ pc' = "loop"
    /\ UNCHANGED <<graphVars, ufVars, source_id, target_id, raised, all_paths, bfVars,
                   mstVars, dfsVars, flowVars>>

DijkstraStep3 ==
    /\ pc = "loop"
    /\ exists_unvisited_node(node_data)
    /\ node_data' = dijkstra_step3(node_data)
    /\ UNCHANGED <<graphVars, ufVars, source_id, target_id, pc, raised, all_paths,
                   bfVars, mstVars, dfsVars, flowVars>>

DijkstraReturn ==
    /\ pc = "loop"
    /\ ~exists_unvisited_node(node_data)
    /\ pc' = "done"
    /\ UNCHANGED <<graphVars, ufVars, source_id, target_id, node_data, raised, all_paths,
                   bfVars, mstVars, dfsVars, flowVars>>

\* get_dijkstra_paths(all_paths=[], current_paths=[], elements, from_id)
GetDijkstraPaths ==
    /\ pc = "done"
    /\ \E t \in NodeSet \cup AbsentIds :
          LET r == get_paths(node_data, <<>>, t)
          IN /\ target_id' = t
             /\ all_paths' = r.all_paths
             /\ raised' = r.raised
    /\ pc' = "paths"
    /\ UNCHANGED <<graphVars, ufVars, source_id, node_data, bfVars, mstVars, dfsVars,
                   flowVars>>

\* The variables an algorithm does not use.
IdleBF == pass_i = 0 /\ edge_i = 0 /\ updated = FALSE
IdleMST ==
    sorted_edges = <<>> /\ minimum_spanning_tree_edges = <<>> /\ edge_visited = <<>>
IdleDFS == todo_list = <<>> /\ visited = {} /\ start_i = 0 /\ cycle = FALSE
IdleFlow == residual_network = <<>> /\ augmenting_paths = <<>> /\ iter = 0
IdleUF ==
    /\ parents = <<>> /\ parent_map = <<>> /\ size_map = <<>>
    /\ unions = {} /\ result = <<>>

InitDijkstra ==
    /\ algorithm = "dijkstra"
    /\ nodes = SpNodes
    /\ edges \in Graphs(SpSlots, MaxEdges, 1..MaxWeight)
    /\ is_directed \in BOOLEAN
    /\ source_id \in {SpNodes[1]} \cup AbsentIds
    /\ target_id = SpNodes[1]
    /\ heuristic = [n \in Range(SpNodes) |-> 0]
    /\ hash_order = SpNodes
    /\ node_data = [n \in Range(SpNodes) |-> EmptyDict]
    /\ pc = "start"
    /\ raised = "None"
    /\ all_paths = <<>>
    /\ IdleBF /\ IdleMST /\ IdleDFS /\ IdleFlow /\ IdleUF

NextDijkstra ==
    \/ DijkstraStep1
    \/ DijkstraStep2
    \/ DijkstraStep3
    \/ DijkstraReturn
    \/ GetDijkstraPaths

SpecDijkstra == InitDijkstra /\ [][NextDijkstra]_vars

-----------------------------------------------------------------------------
(* a_star.py: calc_a_star and get_paths.  The helper functions are the ones
   of dijkstra.py over the scratch key '_a_star'; heuristic[n] is the value
   heuristic(elements, n, target_id) (all 0 for heuristic=None). *)

\* STEP2: as in calc_dijkstra, with the heuristic of v added to its label.
a_star_step2(nd, src) ==
    LET nd1 == [nd EXCEPT ![src] = Put(@, "visited", TRUE)]
        nbrs == get_neighborhood_ids(edges, src, is_directed)
    IN [v \in NodeSet |->
          IF v \in nbrs
          THEN LET es == link_edges(src, v)
                   edge_weight == Get(es[1], "weight", 1)
               IN Put(Put(Put(nd1[v], "distance", edge_weight + heuristic[v]),
                          "pointer_nodes", <<src>>),
                      "pointer_edges", get_ids(es))
          ELSE nd1[v]]

\* a_star_relax that never changes the neighbour.
a_star_relax_never_updates(du, dv, v_id, es, h) == du

\* 3-2: the three-way comparison, the candidate being the stored label of v
\* plus the edge weight plus the heuristic of u.
a_star_relax(du, dv, v_id, es, h) ==
    LET edge_weight == es[1].weight
        candidate == dv.distance + edge_weight + h
    IN IF du.distance < candidate
       THEN du
       ELSE IF du.distance = candidate
       THEN Put(Put(du, "pointer_nodes", Append(du.pointer_nodes, v_id)),
                "pointer_edges", du.pointer_edges \o get_ids(es))
       ELSE Put(Put(Put(du, "distance", candidate),
                    "pointer_nodes", <<v_id>>),
                "pointer_edges", get_ids(es))

\* The node STEP3 puts into L next.
a_star_next(nd) == get_minimum_distance_nodes_from_unvisited(nd)[1]

\* STEP3: one iteration; nothing is relaxed once v is the target.
a_star_step3(nd) ==
    LET v_id == a_star_next(nd)
        nd1 == [nd EXCEPT ![v_id] = Put(@, "visited", TRUE)]
        nbrs == get_neighborhood_ids(edges, v_id, is_directed)
    IN IF v_id = target_id
       THEN nd1
       ELSE [u \in NodeSet |->
               IF u \in nbrs /\ ~nd1[u].visited
               THEN a_star_relax(nd1[u], nd1[v_id], v_id, link_edges(v_id, u),
                                 heuristic[u])
               ELSE nd1[u]]

\* calc_a_star, up to STEP1.
AStarStep1 ==
    /\ pc = "start"
    /\ IF ~has_node(source_id) \/ ~has_node(target_id)
       THEN /\ raised' = "ValueError"
            /\ pc' = "error"
            /\ UNCHANGED node_data
       ELSE /\ node_data' = dijkstra_step1(source_id)
            /\ pc' = "step2"
            /\ UNCHANGED raised
    /\ UNCHANGED <<graphVars, ufVars, source_id, target_id, all_paths, bfVars, mstVars,
                   dfsVars, flowVars>>

AStarStep2 ==
    /\ pc = "step2"
    /\ node_data' = a_star_step2(node_data, source_id)
    /\ pc' = "loop"
    /\ UNCHANGED <<graphVars, ufVars, source_id, target_id, raised, all_paths, bfVars,
                   mstVars, dfsVars, flowVars>>

\* One iteration of the while loop; it breaks when the target enters L.
AStarStep3 ==
    /\ pc = "loop"
    /\ exists_unvisited_node(node_data)
    /\ node_data' = a_star_step3(node_data)
    /\ pc' = IF a_star_next(node_data) = target_id THEN "done" ELSE "loop"
    /\ UNCHANGED <<graphVars, ufVars, source_id, target_id, raised, all_paths, bfVars,
                   mstVars, dfsVars, flowVars>>

\* The while loop ends with every node in L.
AStarReturn ==
    /\ pc = "loop"
    /\ ~exists_unvisited_node(node_data)
    /\ pc' = "done"
    /\ UNCHANGED <<graphVars, ufVars, source_id, target_id, node_data, raised, all_paths,
                   bfVars, mstVars, dfsVars, flowVars>>

\* get_paths(all_paths=[], current_paths=[], elements, from_id=target_id)
AStarGetPaths ==
    /\ pc = "done"
    /\ LET r == get_paths(node_data, <<>>, target_id)
       IN /\ all_paths' = r.all_paths
          /\ raised' = r.raised
    /\ pc' = "paths"
    /\ UNCHANGED <<graphVars, ufVars, source_id, target_id, node_data, bfVars, mstVars,
                   dfsVars, flowVars>>

\* Heuristics that estimate 0 at the target itself.
Heuristics(t) ==
    {h \in [Range(SpNodes) -> 0..MaxHeuristic] : h[t] = 0}

InitAStar ==
    /\ algorithm = "a_star"
    /\ nodes = SpNodes
    /\ edges \in Graphs(SpSlots, MaxEdges, 1..MaxWeight)
    /\ is_directed \in BOOLEAN
    /\ \/ /\ source_id = SpNodes[1]
          /\ target_id \in Range(SpNodes)
          /\ heuristic \in Heuristics(target_id)
       \/ /\ \/ source_id = SpNodes[1] /\ target_id \in AbsentIds
             \/ source_id \in AbsentIds /\ target_id = SpNodes[1]
          /\ heuristic = [n \in Range(SpNodes) |-> 0]
    /\ hash_order = SpNodes
    /\ node_data = [n \in Range(SpNodes) |-> EmptyDict]
    /\ pc = "start"
    /\ raised = "None"
    /\ all_paths = <<>>
    /\ IdleBF /\ IdleMST /\ IdleDFS /\ IdleFlow /\ IdleUF

NextAStar ==
    \/ AStarStep1
    \/ AStarStep2
    \/ AStarStep3
    \/ AStarReturn
    \/ AStarGetPaths

SpecAStar == InitAStar /\ [][NextAStar]_vars

RECURSIVE dijkstra_loop(_)
\* The while loop of calc_dijkstra run to its end.
dijkstra_loop(nd) ==
    IF exists_unvisited_node(nd) THEN dijkstra_loop(dijkstra_step3(nd)) ELSE nd

\* The scratch data calc_dijkstra(source) leaves on the same graph.
calc_dijkstra(src) == dijkstra_loop(dijkstra_step2(dijkstra_step1(src), src))

-----------------------------------------------------------------------------
(* bellman_ford.py: calc_bellman_ford and get_bellman_ford_paths.  node_data
   is the '_bellman_ford' dict of each node. *)

\* STEP1: a fresh scratch dict for every node.
bellman_ford_step1(src) ==
    [n \in NodeSet |-> [distance |-> IF n = src THEN 0 ELSE maxsize]]

\* list.append(x) unless x is in the list already
append_if_absent(l, x) == IF x \in Range(l) THEN l ELSE Append(l, x)

\* The comparison for the route from_id --e--> to_id, on the distances read
\* at the top of the loop body.  st holds the scratch dicts, the updated
\* flag and the exception raised so far: a missing weight is None and cannot
\* be added, and a tie on a node that has no pointer list cannot test
\* membership in None.
bellman_ford_relax(st, from_id, to_id, from_distance, to_distance, e) ==
    IF st.raised # "None" THEN st
    ELSE IF "weight" \notin DOMAIN e
    THEN [st EXCEPT !.raised = "TypeError"]
    ELSE IF from_distance + e.weight < to_distance
    THEN [st EXCEPT !.node_data[to_id] =
                        [distance |-> from_distance + e.weight,
                         pointer_nodes |-> <<from_id>>,
                         pointer_edges |-> <<e.id>>],
                    !.updated = TRUE]
    ELSE IF from_distance + e.weight = to_distance
    THEN IF "pointer_nodes" \notin DOMAIN st.node_data[to_id]
         THEN [st EXCEPT !.raised = "TypeError"]
         ELSE [st EXCEPT !.node_data[to_id].pointer_nodes =
                             append_if_absent(@, from_id),
                         !.node_data[to_id].pointer_edges =
                             append_if_absent(@, e.id),
                         !.updated = TRUE]
    ELSE st

\* The body of the loop over the edges, for the edge e.
bellman_ford_edge(nd, upd, e) ==
    LET source_distance == nd[e.source].distance
        target_distance == nd[e.target].distance
        st1 == bellman_ford_relax([node_data |-> nd, updated |-> upd,
                                   raised |-> "None"],
                                  e.source, e.target,
                                  source_distance, target_distance, e)
    IN IF is_directed THEN st1
       ELSE bellman_ford_relax(st1, e.target, e.source,
                               target_distance, source_distance, e)

\* calc_bellman_ford, up to STEP1.
BellmanFordStep1 ==
    /\ pc = "start"
    /\ IF ~has_node(source_id)
       THEN /\ raised' = "ValueError"
            /\ pc' = "error"
            /\ UNCHANGED <<node_data, bfVars>>
       ELSE /\ node_data' = bellman_ford_step1(source_id)
            /\ pass_i' = 0
            /\ edge_i' = 1
            /\ updated' = FALSE
            /\ pc' = "pass"
            /\ UNCHANGED raised
    /\ UNCHANGED <<graphVars, ufVars, source_id, target_id, all_paths, mstVars,
                   dfsVars, flowVars>>

\* STEP2: one edge of the pass pass_i.
BellmanFordEdge ==
    /\ pc = "pass"
    /\ pass_i < Len(nodes) - 1
    /\ edge_i <= Len(edges)
    /\ LET st == bellman_ford_edge(node_data, updated, edges[edge_i])
       IN /\ node_data' = st.node_data
          /\ updated' = st.updated
          /\ raised' = st.raised
          /\ pc' = IF st.raised # "None" THEN "error" ELSE "pass"
    /\ edge_i' = edge_i + 1
    /\ UNCHANGED <<graphVars, ufVars, source_id, target_id, all_paths, pass_i,
                   mstVars, dfsVars, flowVars>>

\* The pass is over: the next one starts, or the loop breaks when nothing
\* was updated.
BellmanFordPassEnd ==
    /\ pc = "pass"
    /\ pass_i < Len(nodes) - 1
    /\ edge_i > Len(edges)
    /\ IF updated
       THEN /\ pass_i' = pass_i + 1
            /\ edge_i' = 1
            /\ updated' = FALSE
            /\ UNCHANGED pc
       ELSE /\ pc' = "done"
            /\ UNCHANGED bfVars
    /\ UNCHANGED <<graphVars, ufVars, source_id, target_id, node_data, raised,
                   all_paths, mstVars, dfsVars, flowVars>>

\* All len(nodes) - 1 passes were made.
BellmanFordReturn ==
    /\ pc = "pass"
    /\ pass_i >= Len(nodes) - 1
    /\ pc' = "done"
    /\ UNCHANGED <<graphVars, ufVars, source_id, target_id, node_data, raised,
                   all_paths, bfVars, mstVars, dfsVars, flowVars>>

\* get_bellman_ford_paths(all_paths=[], current_paths=[], elements, from_id)
GetBellmanFordPaths ==
    /\ pc = "done"
    /\ \E t \in NodeSet \cup AbsentIds :
          LET r == get_paths(node_data, <<>>, t)
          IN /\ target_id' = t
             /\ all_paths' = r.all_paths
             /\ raised' = r.raised
    /\ pc' = "paths"
    /\ UNCHANGED <<graphVars, ufVars, source_id, node_data, bfVars, mstVars,
                   dfsVars, flowVars>>

\* Weight 0 marks an edge as impassable; it is a weight an input may carry.
InitBellmanFord ==
    /\ algorithm = "bellman_ford"
    /\ nodes = SpNodes
    /\ edges \in Graphs(SpSlots, MaxEdges, 0..MaxWeight)
    /\ is_directed \in BOOLEAN
    /\ source_id \in {SpNodes[1]} \cup AbsentIds
    /\ target_id = SpNodes[1]
    /\ heuristic = [n \in Range(SpNodes) |-> 0]
    /\ hash_order = SpNodes
    /\ node_data = [n \in Range(SpNodes) |-> EmptyDict]
    /\ pc = "start"
    /\ raised = "None"
    /\ all_paths = <<>>
    /\ IdleBF /\ IdleMST /\ IdleDFS /\ IdleFlow /\ IdleUF

NextBellmanFord ==
    \/ BellmanFordStep1
    \/ BellmanFordEdge
    \/ BellmanFordPassEnd
    \/ BellmanFordReturn
    \/ GetBellmanFordPaths

SpecBellmanFord == InitBellmanFord /\ [][NextBellmanFord]_vars

-----------------------------------------------------------------------------
(* kruskal.py with dfs_cycle_detect.cycle_detect, then prim.py on the same
   graph. *)

\* list(set(ids)): the members in the order the hash table yields them.
list_of_set(S) == SelectSeq(hash_order, LAMBDA n : n \in S)

RECURSIVE cycle_detect_scan(_, _, _, _, _, _, _)
\* The for loop over the neighbours of current_id, from the i-th on.  The
\* pointer_node of a node that has none is None (0 here).
cycle_detect_scan(nbrs, i, current_id, pointer_node_id, todo, seen, pointer) ==
    IF i > Len(nbrs)
    THEN [cycle |-> FALSE, todo_list |-> todo, visited |-> seen,
          pointer_node |-> pointer]
    ELSE IF nbrs[i] = pointer_node_id
    THEN cycle_detect_scan(nbrs, i + 1, current_id, pointer_node_id, todo, seen,
                           pointer)
    ELSE IF nbrs[i] \in seen
    THEN [cycle |-> TRUE, todo_list |-> todo, visited |-> seen,
          pointer_node |-> pointer]
    ELSE cycle_detect_scan(nbrs, i + 1, current_id, pointer_node_id,
                           Append(todo, nbrs[i]), seen \cup {nbrs[i]},
                           Put(pointer, nbrs[i], current_id))

RECURSIVE cycle_detect_loop(_, _, _, _)
\* The while loop: pop the last node, scan its neighbours, stop on a cycle.
cycle_detect_loop(E, todo, seen, pointer) ==
    IF Len(todo) = 0 THEN FALSE
    ELSE LET current_id == todo[Len(todo)]
             nbrs == list_of_set(get_neighborhood_ids(E, current_id, is_directed))
             r == cycle_detect_scan(nbrs, 1, current_id,
                                    Get(pointer, current_id, 0),
                                    SubSeq(todo, 1, Len(todo) - 1), seen, pointer)
         IN IF r.cycle THEN TRUE
            ELSE cycle_detect_loop(E, r.todo_list, r.visited, r.pointer_node)

\* cycle_detect(elements, start_id) over the elements whose edges are E.
cycle_detect_from(E, start_id) ==
    cycle_detect_loop(E, <<start_id>>, {start_id}, EmptyDict)

\* cycle_detect(elements=get_elements_from_edge_list(all, E)) without a
\* start_id: the first node element is the source of the first edge.
cycle_detect(E) == cycle_detect_from(E, E[1].source)

RECURSIVE sort_by_weight(_)
\* edges.sort(key=weight): stable, ascending.
sort_by_weight(es) ==
    IF es = <<>> THEN <<>>
    ELSE LET e == es[Len(es)]
             front == sort_by_weight(SubSeq(es, 1, Len(es) - 1))
             k == Cardinality({i \in DOMAIN front : front[i].weight <= e.weight})
         IN SubSeq(front, 1, k) \o <<e>> \o SubSeq(front, k + 1, Len(front))

\* kruskal, up to the sort.
KruskalSort ==
    /\ pc = "start"
    /\ sorted_edges' = sort_by_weight(edges)
    /\ minimum_spanning_tree_edges' = <<>>
    /\ pc' = "kruskal"
    /\ UNCHANGED <<graphVars, ufVars, source_id, target_id, node_data, raised, all_paths,
                   edge_visited, bfVars, dfsVars, flowVars>>

\* One iteration of the while loop: take the lightest edge, keep it unless
\* cycle_detect reports a cycle among the kept edges.
KruskalStep ==
    /\ pc = "kruskal"
    /\ Len(sorted_edges) > 0
    /\ LET edge == sorted_edges[1]
           tentative == Append(minimum_spanning_tree_edges, edge)
       IN /\ sorted_edges' = Tail(sorted_edges)
          /\ minimum_spanning_tree_edges' =
                IF cycle_detect(tentative)
                THEN minimum_spanning_tree_edges
                ELSE tentative
    /\ UNCHANGED <<graphVars, ufVars, source_id, target_id, node_data, pc, raised,
                   all_paths, edge_visited, bfVars, dfsVars, flowVars>>

KruskalReturn ==
    /\ pc = "kruskal"
    /\ Len(sorted_edges) = 0
    /\ pc' = "kruskal_done"
    /\ UNCHANGED <<graphVars, ufVars, source_id, target_id, node_data, raised, all_paths,
                   mstVars, bfVars, dfsVars, flowVars>>

\* The copies of edge e that get_connected_edges(node_id) collects.
connected_copies(e, node_id) ==
    (IF e.source = node_id THEN <<e>> ELSE <<>>)
        \o (IF ~is_directed /\ e.target = node_id THEN <<e>> ELSE <<>>)

RECURSIVE get_connected_edges(_, _)
\* The edges of the first i elements that touch node_id.
get_connected_edges(node_id, i) ==
    IF i = 0 THEN <<>>
    ELSE get_connected_edges(node_id, i - 1) \o connected_copies(edges[i], node_id)

\* An edge leading from L to a node outside L.
leaves_L(nd, e) ==
    \/ nd[e.source].visited /\ ~nd[e.target].visited
    \/ ~is_directed /\ nd[e.target].visited /\ ~nd[e.source].visited

RECURSIVE get_unvisited_edges(_, _)
\* The edges leaving L, collected from the visited ones of the first i nodes.
get_unvisited_edges(nd, i) ==
    IF i = 0 THEN <<>>
    ELSE get_unvisited_edges(nd, i - 1)
            \o (IF nd[nodes[i]].visited
                THEN SelectSeq(get_connected_edges(nodes[i], Len(edges)),
                               LAMBDA e : leaves_L(nd, e))
                ELSE <<>>)

\* prim_min_weight_edge that takes the first edge leaving L.
prim_first_edge(nd) == get_unvisited_edges(nd, Len(nodes))[1]

\* STEP4: the first lightest edge leaving L.
prim_min_weight_edge(nd) ==
    get_minimum_weight_edges(get_unvisited_edges(nd, Len(nodes)))[1]

\* The node the chosen edge brings into L, reached from `from`.
prim_visit(nd, new_id, from_id, e) ==
    [nd EXCEPT ![new_id] =
        [distance |-> nd[from_id].distance + e.weight, visited |-> TRUE,
         pointer_nodes |-> <<from_id>>, pointer_edges |-> <<e.id>>]]

\* The node updates of one iteration: target first, then (undirected) source.
prim_step(nd, e) ==
    LET nd1 == IF ~nd[e.target].visited
               THEN prim_visit(nd, e.target, e.source, e) ELSE nd
    IN IF ~is_directed /\ ~nd1[e.source].visited
       THEN prim_visit(nd1, e.source, e.target, e) ELSE nd1

\* calc_prim, up to STEP2.
PrimStart ==
    /\ pc = "kruskal_done"
    /\ \E s \in NodeSet \cup AbsentIds :
          /\ source_id' = s
          /\ IF ~has_node(s)
             THEN /\ raised' = "ValueError"
                  /\ pc' = "error"
                  /\ UNCHANGED <<node_data, edge_visited>>
             ELSE /\ node_data' =
                        [dijkstra_step1(s) EXCEPT ![s] = Put(@, "visited", TRUE)]
                  /\ edge_visited' = [i \in DOMAIN edges |-> FALSE]
                  /\ pc' = "prim"
                  /\ UNCHANGED raised
    /\ UNCHANGED <<graphVars, ufVars, target_id, all_paths, sorted_edges,
                   minimum_spanning_tree_edges, bfVars, dfsVars, flowVars>>

\* One iteration of the while loop of calc_prim.
PrimStep ==
    /\ pc = "prim"
    /\ exists_unvisited_node(node_data)
    /\ get_unvisited_edges(node_data, Len(nodes)) # <<>>
    /\ LET e == prim_min_weight_edge(node_data)
           i == CHOOSE j \in DOMAIN edges : edges[j].id = e.id
       IN /\ edge_visited' = [edge_visited EXCEPT ![i] = TRUE]
          /\ node_data' = prim_step(node_data, e)
    /\ UNCHANGED <<graphVars, ufVars, source_id, target_id, pc, raised, all_paths,
                   sorted_edges, minimum_spanning_tree_edges, bfVars, dfsVars,
                   flowVars>>

\* The loop ends with every node in L or with no edge leaving L.
PrimReturn ==
    /\ pc = "prim"
    /\ \/ ~exists_unvisited_node(node_data)
       \/ get_unvisited_edges(node_data, Len(nodes)) = <<>>
    /\ pc' = "prim_done"
    /\ UNCHANGED <<graphVars, ufVars, source_id, target_id, node_data, raised, all_paths,
                   mstVars, bfVars, dfsVars, flowVars>>

\* The node elements: the endpoints of the edges, or all five nodes.
InitMST ==
    /\ algorithm = "kruskal, prim"
    /\ edges \in Graphs(MstSlots, MstMaxEdges, 1..MstMaxWeight)
    /\ nodes \in {MstNodes,
                  SetToSeq({edges[i].source : i \in DOMAIN edges}
                               \cup {edges[i].target : i \in DOMAIN edges})}
    /\ nodes # <<>>
    /\ is_directed = FALSE
    /\ hash_order \in {MstNodes, Reverse(MstNodes)}
    /\ source_id = MstNodes[1]
    /\ target_id = MstNodes[1]
    /\ heuristic = [n \in Range(MstNodes) |-> 0]
    /\ node_data = [n \in Range(nodes) |-> EmptyDict]
    /\ pc = "start"
    /\ raised = "None"
    /\ all_paths = <<>>
    /\ IdleBF /\ IdleMST /\ IdleDFS /\ IdleFlow /\ IdleUF

NextMST ==
    \/ KruskalSort
    \/ KruskalStep
    \/ KruskalReturn
    \/ PrimStart
    \/ PrimStep
    \/ PrimReturn

SpecMST == InitMST /\ [][NextMST]_vars

-----------------------------------------------------------------------------
(* dfs.py: cycle_detection, which calls dfs(elements, node_id) from every
   node in turn.  node_data is the '_dfs' dict of each node; all_paths is
   the paths list of the running dfs call. *)

RECURSIVE dfs_scan(_, _, _, _, _)
\* The for loop over the neighbours of current_id, from the i-th on; st
\* holds todo_list, visited, the '_dfs' dicts and the start node's id.
dfs_scan(nbrs, i, current_id, pointer_node_id, st) ==
    IF i > Len(nbrs) THEN st
    ELSE IF nbrs[i] = pointer_node_id
    THEN dfs_scan(nbrs, i + 1, current_id, pointer_node_id, st)
    ELSE IF nbrs[i] \in st.visited
    THEN dfs_scan(nbrs, i + 1, current_id, pointer_node_id,
                  [st EXCEPT !.node_data[st.start_id] = Put(@, "cycle", TRUE)])
    ELSE dfs_scan(nbrs, i + 1, current_id, pointer_node_id,
                  [st EXCEPT !.node_data[nbrs[i]] = Put(@, "pointer_node", current_id),
                             !.visited = @ \cup {nbrs[i]},
                             !.todo_list = Append(@, nbrs[i])])

\* cycle_detection: a fresh '_dfs' dict on every node.
CycleDetectionStart ==
    /\ pc = "start"
    /\ node_data' = [n \in NodeSet |-> EmptyDict]
    /\ cycle' = FALSE
    /\ start_i' = 1
    /\ pc' = "next"
    /\ UNCHANGED <<graphVars, ufVars, source_id, target_id, raised, all_paths, todo_list,
                   visited, bfVars, mstVars, flowVars>>

\* dfs(elements, node_id), up to the while loop.
DfsStart ==
    /\ pc = "next"
    /\ start_i <= Len(nodes)
    /\ LET start_id == nodes[start_i]
       IN /\ node_data' = [n \in NodeSet |->
                              IF n = start_id THEN Put(EmptyDict, "cycle", FALSE)
                              ELSE EmptyDict]
          /\ visited' = {start_id}
          /\ todo_list' = <<start_id>>
    /\ all_paths' = <<>>
    /\ pc' = "dfs"
    /\ UNCHANGED <<graphVars, ufVars, source_id, target_id, raised, start_i, cycle,
                   bfVars, mstVars, flowVars>>

\* One iteration of the while loop of dfs (no target_id is given).
DfsVisit ==
    /\ pc = "dfs"
    /\ Len(todo_list) > 0
    /\ LET start_id == nodes[start_i]
           current_id == todo_list[Len(todo_list)]
           pointer_node_id == Get(node_data[current_id], "pointer_node", 0)
           nbrs == list_of_set(get_neighborhood_ids(edges, current_id, is_directed))
           st == dfs_scan(nbrs, 1, current_id, pointer_node_id,
                          [todo_list |-> SubSeq(todo_list, 1, Len(todo_list) - 1),
                           visited |-> visited, node_data |-> node_data,
                           start_id |-> start_id])
       IN /\ all_paths' = IF current_id = start_id THEN all_paths
                          ELSE Append(all_paths, <<pointer_node_id, current_id>>)
          /\ todo_list' = st.todo_list
          /\ visited' = st.visited
          /\ node_data' = st.node_data
    /\ UNCHANGED <<graphVars, ufVars, source_id, target_id, pc, raised, start_i, cycle,
                   bfVars, mstVars, flowVars>>

\* dfs returns; cycle_detection stops at the first start node flagged.
DfsReturn ==
    /\ pc = "dfs"
    /\ Len(todo_list) = 0
    /\ IF Get(node_data[nodes[start_i]], "cycle", FALSE)
       THEN cycle' = TRUE /\ pc' = "done" /\ UNCHANGED start_i
       ELSE start_i' = start_i + 1 /\ pc' = "next" /\ UNCHANGED cycle
    /\ UNCHANGED <<graphVars, ufVars, source_id, target_id, node_data, raised, all_paths,
                   todo_list, visited, bfVars, mstVars, flowVars>>

\* Every node was tried and none was flagged.
CycleDetectionReturn ==
    /\ pc = "next"
    /\ start_i > Len(nodes)
    /\ pc' = "done"
    /\ UNCHANGED <<graphVars, ufVars, source_id, target_id, node_data, raised, all_paths,
                   dfsVars, bfVars, mstVars, flowVars>>

InitCycle ==
    /\ algorithm = "dfs"
    /\ nodes = CycNodes
    /\ edges \in Graphs(CycSlots, CycMaxEdges, {1})
    /\ is_directed \in BOOLEAN
    /\ hash_order \in {CycNodes, Reverse(CycNodes)}
    /\ source_id = CycNodes[1]
    /\ target_id = CycNodes[1]
    /\ heuristic = [n \in Range(CycNodes) |-> 0]
    /\ node_data = [n \in Range(CycNodes) |-> EmptyDict]
    /\ pc = "start"
    /\ raised = "None"
    /\ all_paths = <<>>
    /\ IdleBF /\ IdleMST /\ IdleDFS /\ IdleFlow /\ IdleUF

NextCycle ==
    \/ CycleDetectionStart
    \/ DfsStart
    \/ DfsVisit
    \/ DfsReturn
    \/ CycleDetectionReturn

SpecCycle == InitCycle /\ [][NextCycle]_vars

-----------------------------------------------------------------------------
(* ford_fulkerson.py: calc_max_flow.  residual_network holds the edge
   elements of the residual network in list order; the residual edge of the
   edge with id i has the id -i ('_residual_' + id in the script). *)

\* The two residual-network elements create_residual_network makes of edge e.
forward_edge(e) ==
    [id |-> e.id, source |-> e.source, target |-> e.target, weight |-> e.weight,
     flow |-> 0, current_weight |-> e.weight - 0, pointing |-> 0 - e.id,
     is_residual |-> FALSE]

residual_edge(e) ==
    [id |-> 0 - e.id, source |-> e.target, target |-> e.source,
     current_weight |-> 0, pointing |-> e.id, is_residual |-> TRUE]

create_residual_network(E) ==
    [k \in 1..(2 * Len(E)) |->
        IF k % 2 = 1 THEN forward_edge(E[(k + 1) \div 2])
        ELSE residual_edge(E[k \div 2])]

\* search_augmenting_flow passes over an edge that has capacity left.
arc_open_forward_only(e) == e.current_weight > 0 /\ ~e.is_residual

arc_open(e) == e.current_weight > 0

\* The neighbour ids of current_id, one per open edge, in list order.
flow_neighbor_node_ids(net, current_id) ==
    LET open == SelectSeq(net, LAMBDA e : arc_open(e) /\ e.source = current_id)
    IN [i \in 1..Len(open) |-> open[i].target]

RECURSIVE flow_scan(_, _, _, _)
\* The for loop over the neighbours, from the i-th on.
flow_scan(nbrs, i, current_id, st) ==
    IF i > Len(nbrs) THEN st
    ELSE IF nbrs[i] \in st.visited
    THEN flow_scan(nbrs, i + 1, current_id, st)
    ELSE flow_scan(nbrs, i + 1, current_id,
                   [todo_list |-> Append(st.todo_list, nbrs[i]),
                    visited |-> st.visited \cup {nbrs[i]},
                    pointer_node |-> Put(st.pointer_node, nbrs[i], current_id)])

RECURSIVE flow_search_loop(_, _, _)
\* The while loop of the depth-first search; it breaks at a node next to
\* the target.
flow_search_loop(net, st, tgt) ==
    IF Len(st.todo_list) = 0 THEN st
    ELSE LET current_id == st.todo_list[Len(st.todo_list)]
             nbrs == flow_neighbor_node_ids(net, current_id)
             popped == [st EXCEPT !.todo_list = SubSeq(@, 1, Len(@) - 1)]
         IN IF tgt \in Range(nbrs)
            THEN [popped EXCEPT !.pointer_node = Put(@, tgt, current_id),
                                !.visited = @ \cup {tgt}]
            ELSE flow_search_loop(net, flow_scan(nbrs, 1, current_id, popped), tgt)

RECURSIVE flow_trace_back(_, _, _)
\* The [from, to] pairs from the source to current_node_id, source first.
flow_trace_back(pointer, current_node_id, src) ==
    IF current_node_id = src THEN <<>>
    ELSE Append(flow_trace_back(pointer, pointer[current_node_id], src),
                <<pointer[current_node_id], current_node_id>>)

search_augmenting_flow(net, src, tgt) ==
    LET st == flow_search_loop(net, [todo_list |-> <<src>>, visited |-> {src},
                                     pointer_node |-> EmptyDict], tgt)
    IN IF tgt \notin st.visited THEN <<>>
       ELSE flow_trace_back(st.pointer_node, tgt, src)

\* The index of the first edge from from_id to to_id, 0 for None.
find_edge(net, from_id, to_id) ==
    LET hits == {k \in DOMAIN net :
                    net[k].source = from_id /\ net[k].target = to_id}
    IN IF hits = {} THEN 0 ELSE CHOOSE k \in hits : \A j \in hits : k <= j

index_of_id(net, id) == CHOOSE k \in DOMAIN net : net[k].id = id

RECURSIVE path_min_weight(_, _, _, _)
\* The first loop: the least current_weight on the path, or the error it
\* raises, from the i-th pair on.
path_min_weight(net, paths, i, min_weight) ==
    IF i > Len(paths) THEN [raised |-> "None", min_weight |-> min_weight]
    ELSE LET k == find_edge(net, paths[i][1], paths[i][2])
         IN IF k = 0
            THEN [raised |-> "ValueError: edge is not found", min_weight |-> 0]
            ELSE IF net[k].current_weight <= 0
            THEN [raised |-> "ValueError: edge has no capacity", min_weight |-> 0]
            ELSE path_min_weight(net, paths, i + 1,
                                 IF net[k].current_weight < min_weight
                                 THEN net[k].current_weight ELSE min_weight)

\* apply_flow that leaves the network alone when the path edge is a
\* residual one.
apply_flow_skips_residual(net, k, min_weight) ==
    IF net[k].is_residual THEN net
    ELSE LET flow == net[k].flow + min_weight
             p == index_of_id(net, net[k].pointing)
         IN [net EXCEPT ![k].flow = flow,
                        ![k].current_weight = net[k].weight - flow,
                        ![p].current_weight = flow]

\* apply_flow that never writes the current_weight of the paired edge.
apply_flow_forgets_pair(net, k, min_weight) ==
    LET p == index_of_id(net, net[k].pointing)
    IN IF net[k].is_residual
       THEN LET flow == net[p].flow - min_weight
            IN [net EXCEPT ![p].flow = flow,
                           ![k].current_weight = flow]
       ELSE LET flow == net[k].flow + min_weight
            IN [net EXCEPT ![k].flow = flow,
                           ![k].current_weight = net[k].weight - flow]

\* The second loop's body for the path edge at index k.
apply_flow(net, k, min_weight) ==
    LET p == index_of_id(net, net[k].pointing)
    IN IF net[k].is_residual
       THEN LET flow == net[p].flow - min_weight
            IN [net EXCEPT ![p].flow = flow,
                           ![p].current_weight = net[p].weight - flow,
                           ![k].current_weight = flow]
       ELSE LET flow == net[k].flow + min_weight
            IN [net EXCEPT ![k].flow = flow,
                           ![k].current_weight = net[k].weight - flow,
                           ![p].current_weight = flow]

RECURSIVE apply_path(_, _, _, _)
apply_path(net, paths, i, min_weight) ==
    IF i > Len(paths) THEN net
    ELSE apply_path(apply_flow(net, find_edge(net, paths[i][1], paths[i][2]),
                               min_weight),
                    paths, i + 1, min_weight)

\* update_augmenting_network: the network it leaves and what it raises.
update_augmenting_network(net, paths) ==
    LET m == path_min_weight(net, paths, 1, maxsize)
    IN IF m.raised # "None"
       THEN [raised |-> m.raised, network |-> net]
       ELSE [raised |-> "None", network |-> apply_path(net, paths, 1, m.min_weight)]

\* calc_max_flow, up to the while loop.
FlowStart ==
    /\ pc = "start"
    /\ residual_network' = create_residual_network(edges)
    /\ iter' = 0
    /\ augmenting_paths' =
          search_augmenting_flow(create_residual_network(edges), source_id, target_id)
    /\ pc' = "flow_loop"
    /\ UNCHANGED <<graphVars, ufVars, source_id, target_id, node_data, raised, all_paths,
                   bfVars, mstVars, dfsVars>>

\* One iteration of the while loop.
FlowAugment ==
    /\ pc = "flow_loop"
    /\ Len(augmenting_paths) > 0
    /\ iter' = iter + 1
    /\ IF iter + 1 > max_iter
       THEN /\ raised' = "ValueError: max_iter is exceeded"
            /\ pc' = "error"
            /\ UNCHANGED <<residual_network, augmenting_paths>>
       ELSE LET r == update_augmenting_network(residual_network, augmenting_paths)
            IN IF r.raised # "None"
               THEN /\ raised' = r.raised
                    /\ pc' = "error"
                    /\ UNCHANGED <<residual_network, augmenting_paths>>
               ELSE /\ residual_network' = r.network
                    /\ augmenting_paths' =
                          search_augmenting_flow(r.network, source_id, target_id)
                    /\ UNCHANGED <<pc, raised>>
    /\ UNCHANGED <<graphVars, ufVars, source_id, target_id, node_data, all_paths, bfVars,
                   mstVars, dfsVars>>

\* No augmenting path is left: the residual network is returned.
FlowReturn ==
    /\ pc = "flow_loop"
    /\ Len(augmenting_paths) = 0
    /\ pc' = "done"
    /\ UNCHANGED <<graphVars, ufVars, source_id, target_id, node_data, raised, all_paths,
                   bfVars, mstVars, dfsVars, flowVars>>

InitFlow ==
    /\ algorithm = "ford_fulkerson"
    /\ nodes = FlowNodes
    /\ edges \in Graphs(FlowSlots, FlowMaxEdges, 1..FlowMaxWeight)
    /\ is_directed = TRUE
    /\ hash_order = FlowNodes
    /\ source_id = FlowNodes[1]
    /\ target_id \in {FlowNodes[6], FlowNodes[1]} \cup AbsentIds
    /\ heuristic = [n \in Range(FlowNodes) |-> 0]
    /\ node_data = [n \in Range(FlowNodes) |-> EmptyDict]
    /\ pc = "start"
    /\ raised = "None"
    /\ all_paths = <<>>
    /\ IdleBF /\ IdleMST /\ IdleDFS /\ IdleFlow /\ IdleUF

NextFlow ==
    \/ FlowStart
    \/ FlowAugment
    \/ FlowReturn

SpecFlow == InitFlow /\ [][NextFlow]_vars

-----------------------------------------------------------------------------
(* dijkstra.py: max_flow with its own search_augmenting_flow.  The residual
   network and update_augmenting_network are those of ford_fulkerson.py,
   line for line.  iter is the variable counter. *)

RECURSIVE max_flow_scan(_, _, _, _)
\* The for loop over the neighbours of to_id, from the i-th on.
max_flow_scan(nbrs, i, to_id, st) ==
    IF i > Len(nbrs) THEN st
    ELSE IF nbrs[i] \in st.seen
    THEN max_flow_scan(nbrs, i + 1, to_id, st)
    ELSE max_flow_scan(nbrs, i + 1, to_id,
                       [st EXCEPT !.seen = @ \cup {nbrs[i]},
                                  !.todo_list = Append(@, <<to_id, nbrs[i]>>)])

RECURSIVE max_flow_search_loop(_, _, _)
\* The while loop: pop the last [from, to] pair, record it, stop at a node
\* next to the target.
max_flow_search_loop(net, st, tgt) ==
    IF Len(st.todo_list) = 0 THEN st
    ELSE LET todo == st.todo_list[Len(st.todo_list)]
             to_id == todo[2]
             popped == [st EXCEPT !.todo_list = SubSeq(@, 1, Len(@) - 1),
                                  !.paths = Append(@, todo)]
             nbrs == flow_neighbor_node_ids(net, to_id)
         IN IF tgt \in Range(nbrs)
            THEN [popped EXCEPT !.seen = @ \cup {tgt},
                                !.paths = Append(@, <<to_id, tgt>>)]
            ELSE max_flow_search_loop(net, max_flow_scan(nbrs, 1, to_id, popped),
                                      tgt)

RECURSIVE max_flow_optimize(_, _, _, _)
\* The `while True` loop that cuts the search tree down to one path: acc is
\* optimized_paths, source end first.
max_flow_optimize(paths, last_path, src, acc) ==
    LET hits == {k \in DOMAIN paths : paths[k][2] = last_path[1]}
        p == paths[CHOOSE k \in hits : \A j \in hits : j <= k]
    IN IF hits = {}
       THEN [raised |-> "ValueError: last_path is not found", paths |-> <<>>]
       ELSE IF p[1] = src
       THEN [raised |-> "None", paths |-> <<p>> \o acc]
       ELSE max_flow_optimize(paths, p, src, <<p>> \o acc)

\* search_augmenting_flow of dijkstra.py: the path and what it raises.
max_flow_search(net, src, tgt) ==
    LET first == flow_neighbor_node_ids(net, src)
        st == max_flow_search_loop(
                  net,
                  [todo_list |-> [i \in 1..Len(first) |-> <<src, first[i]>>],
                   seen |-> {src} \cup Range(first),
                   paths |-> <<>>],
                  tgt)
    IN IF tgt \notin st.seen THEN [raised |-> "None", paths |-> <<>>]
       ELSE IF st.paths = <<>> THEN [raised |-> "IndexError", paths |-> <<>>]
       ELSE max_flow_optimize(st.paths, st.paths[Len(st.paths)], src,
                              <<st.paths[Len(st.paths)]>>)

\* max_flow, up to the while loop.
MaxFlowStart ==
    /\ pc = "start"
    /\ residual_network' = create_residual_network(edges)
    /\ iter' = 0
    /\ LET r == max_flow_search(create_residual_network(edges), source_id,
                                target_id)
       IN /\ augmenting_paths' = r.paths
          /\ raised' = r.raised
          /\ pc' = IF r.raised # "None" THEN "error" ELSE "flow_loop"
    /\ UNCHANGED <<graphVars, ufVars, source_id, target_id, node_data, all_paths,
                   bfVars, mstVars, dfsVars>>

\* `if counter == 20: break`
max_flow_breaks(counter, paths) == counter = counter_limit

\* One iteration of the while loop.
MaxFlowAugment ==
    /\ pc = "flow_loop"
    /\ Len(augmenting_paths) > 0
    /\ iter' = iter + 1
    /\ LET u == update_augmenting_network(residual_network, augmenting_paths)
           r == max_flow_search(u.network, source_id, target_id)
       IN IF u.raised # "None"
          THEN /\ raised' = u.raised
               /\ pc' = "error"
               /\ UNCHANGED <<residual_network, augmenting_paths>>
          ELSE /\ residual_network' = u.network
               /\ augmenting_paths' = r.paths
               /\ raised' = r.raised
               /\ pc' = IF r.raised # "None" THEN "error"
                        ELSE IF max_flow_breaks(iter + 1, r.paths) THEN "break"
                        ELSE "flow_loop"
    /\ UNCHANGED <<graphVars, ufVars, source_id, target_id, node_data, all_paths,
                   bfVars, mstVars, dfsVars>>

\* The loop is left, by its condition or by the break, and the flow of
\* every forward edge is printed.
MaxFlowPrint ==
    /\ \/ pc = "flow_loop" /\ Len(augmenting_paths) = 0
       \/ pc = "break"
    /\ pc' = "done"
    /\ UNCHANGED <<graphVars, ufVars, source_id, target_id, node_data, raised,
                   all_paths, bfVars, mstVars, dfsVars, flowVars>>

\* The fan network of width w: w paths source -> m -> target of two edges of
\* capacity c each, then (direct) an edge from the source to the target.
fan_network(w, c, direct) ==
    [k \in 1..(2 * w) |->
        IF k % 2 = 1
        THEN [id |-> k, source |-> 1, target |-> 2 + (k + 1) \div 2, weight |-> c]
        ELSE [id |-> k, source |-> 2 + k \div 2, target |-> 2, weight |-> c]]
    \o (IF direct
        THEN <<[id |-> 2 * w + 1, source |-> 1, target |-> 2, weight |-> c]>>
        ELSE <<>>)

InitMaxFlow ==
    /\ algorithm = "dijkstra.max_flow"
    /\ \E w \in 0..FanWidth, c \in 1..FlowMaxWeight, direct \in BOOLEAN :
          /\ nodes = [i \in 1..(w + 2) |-> i]
          /\ edges = fan_network(w, c, direct)
    /\ is_directed = TRUE
    /\ hash_order = nodes
    /\ source_id = 1
    /\ target_id = 2
    /\ heuristic = [n \in Range(nodes) |-> 0]
    /\ node_data = [n \in Range(nodes) |-> EmptyDict]
    /\ pc = "start"
    /\ raised = "None"
    /\ all_paths = <<>>
    /\ IdleBF /\ IdleMST /\ IdleDFS /\ IdleFlow /\ IdleUF

NextMaxFlow ==
    \/ MaxFlowStart
    \/ MaxFlowAugment
    \/ MaxFlowPrint

SpecMaxFlow == InitMaxFlow /\ [][NextMaxFlow]_vars

-----------------------------------------------------------------------------
(* union_find.py: UnionFind(n) over the elements 0..n-1 and UnionFindDict
   over the same elements, inserted in ascending order.  Every call is made
   on both objects; `result` holds the method called and what the UnionFind
   call returned. *)

Elements == 0..(UfN - 1)

RECURSIVE uf_find(_, _)
\* UnionFind.find: the root of x and the parents list after the path from x
\* to the root has been re-pointed at the root.
uf_find(ps, x) ==
    IF ps[x] < 0 THEN [parents |-> ps, root |-> x]
    ELSE LET r == uf_find(ps, ps[x])
         IN [parents |-> [r.parents EXCEPT ![x] = r.root], root |-> r.root]

\* uf_union that hangs y itself, not its root, under the root of x.
uf_union_moves_element(ps, x, y) ==
    LET fx == uf_find(ps, x)
        fy == uf_find(fx.parents, y)
        ps2 == fy.parents
        root_x == fx.root
        root_y == fy.root
    IN IF root_x = root_y THEN ps2
       ELSE [ps2 EXCEPT ![root_x] = ps2[root_x] - 1, ![y] = root_x]

\* uf_union that gives up when the root of x has more than one member.
uf_union_pairs_only(ps, x, y) ==
    LET fx == uf_find(ps, x)
        fy == uf_find(fx.parents, y)
        ps2 == fy.parents
        root_x == fx.root
        root_y == fy.root
    IN IF root_x = root_y \/ ps2[root_x] < -1 THEN ps2
       ELSE [ps2 EXCEPT ![root_y] = ps2[root_y] + ps2[root_x],
                        ![root_x] = root_y]

\* uf_union that always hangs the root of x under the root of y.
uf_union_under_y(ps, x, y) ==
    LET fx == uf_find(ps, x)
        fy == uf_find(fx.parents, y)
        ps2 == fy.parents
        root_x == fx.root
        root_y == fy.root
    IN IF root_x = root_y THEN ps2
       ELSE [ps2 EXCEPT ![root_y] = ps2[root_y] + ps2[root_x],
                        ![root_x] = root_y]

\* UnionFind.union
uf_union(ps, x, y) ==
    LET fx == uf_find(ps, x)
        fy == uf_find(fx.parents, y)
        ps2 == fy.parents
        root_x == fx.root
        root_y == fy.root
    IN IF root_x = root_y THEN ps2
       ELSE IF ps2[root_x] > ps2[root_y]
       THEN [ps2 EXCEPT ![root_y] = ps2[root_y] + ps2[root_x],
                        ![root_x] = root_y]
       ELSE [ps2 EXCEPT ![root_x] = ps2[root_x] + ps2[root_y],
                        ![root_y] = root_x]

\* UnionFind.size
uf_size(ps, x) ==
    LET f == uf_find(ps, x)
    IN [parents |-> f.parents, value |-> 0 - f.parents[f.root]]

\* UnionFind.is_same
uf_is_same(ps, x, y) ==
    LET fx == uf_find(ps, x)
        fy == uf_find(fx.parents, y)
    IN [parents |-> fy.parents, value |-> fx.root = fy.root]

RECURSIVE uf_members_loop(_, _, _, _)
\* The list comprehension of members, from element i on.
uf_members_loop(ps, root, i, acc) ==
    IF i >= UfN THEN [parents |-> ps, value |-> acc]
    ELSE LET f == uf_find(ps, i)
         IN uf_members_loop(f.parents, root, i + 1,
                            IF f.root = root THEN Append(acc, i) ELSE acc)

\* UnionFind.members
uf_members(ps, x) ==
    LET f == uf_find(ps, x)
    IN uf_members_loop(f.parents, f.root, 0, <<>>)

\* UnionFind.roots and UnionFind.group_count
uf_roots(ps) == {i \in DOMAIN ps : ps[i] < 0}

uf_group_count(ps) == Cardinality(uf_roots(ps))

RECURSIVE ufd_find(_, _)
\* UnionFindDict.find, None being -1.  The while loop writes to every node
\* on the way up the parent it already has, so parent_map is left as it was.
ufd_find(pm, element) ==
    IF element \notin DOMAIN pm THEN -1
    ELSE IF pm[element] = element THEN element
    ELSE ufd_find(pm, pm[element])

\* UnionFindDict.union: the two maps after the call.
ufd_union(pm, sm, x, y) ==
    LET root_x == ufd_find(pm, x)
        root_y == ufd_find(pm, y)
    IN IF root_x = root_y THEN [parent_map |-> pm, size_map |-> sm]
       ELSE IF sm[root_x] >= sm[root_y]
       THEN [parent_map |-> [pm EXCEPT ![root_y] = root_x],
             size_map |-> [sm EXCEPT ![root_x] = sm[root_x] + sm[root_y]]]
       ELSE [parent_map |-> [pm EXCEPT ![root_x] = root_y],
             size_map |-> [sm EXCEPT ![root_y] = sm[root_y] + sm[root_x]]]

\* UnionFindDict.is_same
ufd_is_same(pm, x, y) == ufd_find(pm, x) = ufd_find(pm, y)

\* UnionFindDict.members, keys in insertion order
ufd_members(pm, x) ==
    SelectSeq(SetToSeq(DOMAIN pm), LAMBDA k : ufd_find(pm, k) = ufd_find(pm, x))

\* UnionFindDict.roots and UnionFindDict.group_count
ufd_roots(pm) == {k \in DOMAIN pm : pm[k] = k}

ufd_group_count(pm) == Cardinality(ufd_roots(pm))

\* uf.union(x, y) on both objects.
UfUnion ==
    /\ pc = "uf"
    /\ \E x, y \in Elements :
          LET d == ufd_union(parent_map, size_map, x, y)
          IN /\ parents' = uf_union(parents, x, y)
             /\ parent_map' = d.parent_map
             /\ size_map' = d.size_map
             /\ unions' = unions \cup {{x, y}}
             /\ result' = <<"union", "None">>
    /\ UNCHANGED <<graphVars, source_id, target_id, node_data, pc, raised,
                   all_paths, bfVars, mstVars, dfsVars, flowVars>>

\* uf.find(x) on both objects.
UfFind ==
    /\ pc = "uf"
    /\ \E x \in Elements :
          LET f == uf_find(parents, x)
          IN /\ parents' = f.parents
             /\ result' = <<"find", f.root>>
    /\ UNCHANGED <<graphVars, source_id, target_id, node_data, pc, raised,
                   all_paths, bfVars, mstVars, dfsVars, flowVars, parent_map,
                   size_map, unions>>

\* uf.is_same(x, y) on both objects.
UfIsSame ==
    /\ pc = "uf"
    /\ \E x, y \in Elements :
          LET f == uf_is_same(parents, x, y)
          IN /\ parents' = f.parents
             /\ result' = <<"is_same", f.value>>
    /\ UNCHANGED <<graphVars, source_id, target_id, node_data, pc, raised,
                   all_paths, bfVars, mstVars, dfsVars, flowVars, parent_map,
                   size_map, unions>>

\* uf.size(x) of UnionFind (UnionFindDict has no size method).
UfSize ==
    /\ pc = "uf"
    /\ \E x \in Elements :
          LET f == uf_size(parents, x)
          IN /\ parents' = f.parents
             /\ result' = <<"size", f.value>>
    /\ UNCHANGED <<graphVars, source_id, target_id, node_data, pc, raised,
                   all_paths, bfVars, mstVars, dfsVars, flowVars, parent_map,
                   size_map, unions>>

\* uf.members(x) on both objects.
UfMembers ==
    /\ pc = "uf"
    /\ \E x \in Elements :
          LET f == uf_members(parents, x)
          IN /\ parents' = f.parents
             /\ result' = <<"members", f.value>>
    /\ UNCHANGED <<graphVars, source_id, target_id, node_data, pc, raised,
                   all_paths, bfVars, mstVars, dfsVars, flowVars, parent_map,
                   size_map, unions>>

\* UnionFind(UfN), and UnionFindDict() with insert(0) .. insert(UfN - 1).
InitUnionFind ==
    /\ parents = [i \in Elements |-> -1]
    /\ parent_map = [i \in Elements |-> i]
    /\ size_map = [i \in Elements |-> 1]
    /\ unions = {}
    /\ result = <<>>
    /\ algorithm = "union_find"
    /\ nodes = <<>>
    /\ edges = <<>>
    /\ is_directed = FALSE
    /\ source_id = 0
    /\ target_id = 0
    /\ heuristic = <<>>
    /\ hash_order = <<>>
    /\ node_data = <<>>
    /\ pc = "uf"
    /\ raised = "None"
    /\ all_paths = <<>>
    /\ IdleBF /\ IdleMST /\ IdleDFS /\ IdleFlow

NextUnionFind ==
    \/ UfUnion
    \/ UfFind
    \/ UfIsSame
    \/ UfSize
    \/ UfMembers

SpecUnionFind == InitUnionFind /\ [][NextUnionFind]_vars

-----------------------------------------------------------------------------
(* The entry points that take a source id: calc_dijkstra, calc_a_star,
   calc_bellman_ford, and calc_prim (run after kruskal on the same graph). *)

InitEntryPoints ==
    \/ InitDijkstra
    \/ InitAStar
    \/ InitBellmanFord
    \/ InitMST

NextEntryPoints ==
    \/ algorithm = "dijkstra" /\ NextDijkstra
    \/ algorithm = "a_star" /\ NextAStar
    \/ algorithm = "bellman_ford" /\ NextBellmanFord
    \/ algorithm = "kruskal, prim" /\ NextMST

SpecEntryPoints == InitEntryPoints /\ [][NextEntryPoints]_vars

-----------------------------------------------------------------------------
(* The two searches that take a target, one iteration of the while loop per
   step: dfs(elements, start_id, target_id) of dfs.py on the input graph,
   and search_augmenting_flow of ford_fulkerson.py on the residual networks
   of one call of calc_max_flow.  source_id is the start node; node_data
   holds the '_dfs' dicts. *)

\* dfs, up to the while loop.
DfsTargetStart ==
    /\ pc = "dfs_call"
    /\ IF ~has_node(source_id)
       THEN /\ raised' = "ValueError"
            /\ pc' = "error"
            /\ UNCHANGED <<node_data, visited, todo_list, all_paths>>
       ELSE /\ node_data' = [n \in NodeSet |->
                                IF n = source_id THEN Put(EmptyDict, "cycle", FALSE)
                                ELSE EmptyDict]
            /\ visited' = {source_id}
            /\ todo_list' = <<source_id>>
            /\ all_paths' = <<>>
            /\ pc' = "dfs_loop"
            /\ UNCHANGED raised
    /\ UNCHANGED <<graphVars, ufVars, source_id, target_id, start_i, cycle,
                   bfVars, mstVars, flowVars>>

\* One iteration of the while loop of dfs, with its break at a node next to
\* the target.
DfsTargetVisit ==
    /\ pc = "dfs_loop"
    /\ Len(todo_list) > 0
    /\ LET current_id == todo_list[Len(todo_list)]
           pointer_node_id == Get(node_data[current_id], "pointer_node", 0)
           nbrs == list_of_set(get_neighborhood_ids(edges, current_id, is_directed))
           popped == SubSeq(todo_list, 1, Len(todo_list) - 1)
           paths == IF current_id = source_id THEN all_paths
                    ELSE Append(all_paths, <<pointer_node_id, current_id>>)
           st == dfs_scan(nbrs, 1, current_id, pointer_node_id,
                          [todo_list |-> popped, visited |-> visited,
                           node_data |-> node_data, start_id |-> source_id])
       IN IF target_id \in Range(nbrs)
          THEN /\ node_data' = [node_data EXCEPT
                                   ![target_id] = Put(@, "pointer_node", current_id)]
               /\ visited' = visited \cup {target_id}
               /\ all_paths' = Append(paths, <<current_id, target_id>>)
               /\ todo_list' = popped
               /\ pc' = "dfs_done"
          ELSE /\ node_data' = st.node_data
               /\ visited' = st.visited
               /\ all_paths' = paths
               /\ todo_list' = st.todo_list
               /\ UNCHANGED pc
    /\ UNCHANGED <<graphVars, ufVars, source_id, target_id, raised, start_i, cycle,
                   bfVars, mstVars, flowVars>>

\* The todo list is empty: dfs returns paths.
DfsTargetReturn ==
    /\ pc = "dfs_loop"
    /\ Len(todo_list) = 0
    /\ pc' = "dfs_done"
    /\ UNCHANGED <<graphVars, ufVars, source_id, target_id, node_data, raised,
                   all_paths, dfsVars, bfVars, mstVars, flowVars>>

\* The pointer_node entries of the '_dfs' dicts, as one dict.
pointer_node_of(nd) ==
    [n \in {m \in DOMAIN nd : "pointer_node" \in DOMAIN nd[m]} |-> nd[n].pointer_node]

\* flow_visit that goes on scanning at a node next to the target.
flow_visit_without_break(net, st, tgt) ==
    LET current_id == st.todo_list[Len(st.todo_list)]
        nbrs == flow_neighbor_node_ids(net, current_id)
        popped == [todo_list |-> SubSeq(st.todo_list, 1, Len(st.todo_list) - 1),
                   visited |-> st.visited, pointer_node |-> st.pointer_node]
        scanned == flow_scan(nbrs, 1, current_id, popped)
    IN [todo_list |-> scanned.todo_list, visited |-> scanned.visited,
        pointer_node |-> scanned.pointer_node, found |-> FALSE]

\* One iteration of the while loop of search_augmenting_flow; found says that
\* it ended in the break.
flow_visit(net, st, tgt) ==
    LET current_id == st.todo_list[Len(st.todo_list)]
        nbrs == flow_neighbor_node_ids(net, current_id)
        popped == [todo_list |-> SubSeq(st.todo_list, 1, Len(st.todo_list) - 1),
                   visited |-> st.visited, pointer_node |-> st.pointer_node]
        scanned == flow_scan(nbrs, 1, current_id, popped)
    IN IF tgt \in Range(nbrs)
       THEN [todo_list |-> popped.todo_list,
             visited |-> popped.visited \cup {tgt},
             pointer_node |-> Put(popped.pointer_node, tgt, current_id),
             found |-> TRUE]
       ELSE [todo_list |-> scanned.todo_list, visited |-> scanned.visited,
             pointer_node |-> scanned.pointer_node, found |-> FALSE]

\* search_augmenting_flow, up to the while loop.
SearchStart ==
    /\ pc = "search_call"
    /\ node_data' = [n \in NodeSet |-> EmptyDict]
    /\ visited' = {source_id}
    /\ todo_list' = <<source_id>>
    /\ pc' = "search_loop"
    /\ UNCHANGED <<graphVars, ufVars, source_id, target_id, raised, all_paths,
                   start_i, cycle, bfVars, mstVars, flowVars>>

\* One iteration of the while loop; after the break the path is read off the
\* pointers and returned.
SearchVisit ==
    /\ pc = "search_loop"
    /\ Len(todo_list) > 0
    /\ LET st == flow_visit(residual_network,
                            [todo_list |-> todo_list, visited |-> visited,
                             pointer_node |-> pointer_node_of(node_data)],
                            target_id)
       IN /\ todo_list' = st.todo_list
          /\ visited' = st.visited
          /\ node_data' = [n \in NodeSet |->
                              IF n \in DOMAIN st.pointer_node
                              THEN Put(EmptyDict, "pointer_node", st.pointer_node[n])
                              ELSE EmptyDict]
          /\ IF st.found
             THEN /\ augmenting_paths' =
                        flow_trace_back(st.pointer_node, target_id, source_id)
                  /\ pc' = "search_done"
             ELSE UNCHANGED <<augmenting_paths, pc>>
    /\ UNCHANGED <<graphVars, ufVars, source_id, target_id, raised, all_paths,
                   start_i, cycle, bfVars, mstVars, residual_network, iter>>

\* The todo list is empty: no path is returned.
SearchReturn ==
    /\ pc = "search_loop"
    /\ Len(todo_list) = 0
    /\ augmenting_paths' = <<>>
    /\ pc' = "search_done"
    /\ UNCHANGED <<graphVars, ufVars, source_id, target_id, node_data, raised,
                   all_paths, dfsVars, bfVars, mstVars, residual_network, iter>>

\* calc_max_flow, up to its first call of search_augmenting_flow.
SearchCreate ==
    /\ pc = "flow_call"
    /\ residual_network' = create_residual_network(edges)
    /\ iter' = 0
    /\ pc' = "search_call"
    /\ UNCHANGED <<graphVars, ufVars, source_id, target_id, node_data, raised,
                   all_paths, dfsVars, bfVars, mstVars, augmenting_paths>>

\* One iteration of the while loop of calc_max_flow, up to its call of
\* search_augmenting_flow.
SearchUpdate ==
    /\ pc = "search_done"
    /\ Len(augmenting_paths) > 0
    /\ iter' = iter + 1
    /\ IF iter + 1 > max_iter
       THEN /\ raised' = "ValueError: max_iter is exceeded"
            /\ pc' = "error"
            /\ UNCHANGED residual_network
       ELSE LET r == update_augmenting_network(residual_network, augmenting_paths)
            IN IF r.raised # "None"
               THEN /\ raised' = r.raised
                    /\ pc' = "error"
                    /\ UNCHANGED residual_network
               ELSE /\ residual_network' = r.network
                    /\ pc' = "search_call"
                    /\ UNCHANGED raised
    /\ UNCHANGED <<graphVars, ufVars, source_id, target_id, node_data, all_paths,
                   dfsVars, bfVars, mstVars, augmenting_paths>>

InitDfsTarget ==
    /\ algorithm = "dfs"
    /\ nodes = CycNodes
    /\ edges \in Graphs(CycSlots, CycMaxEdges, 0..1)
    /\ is_directed \in BOOLEAN
    /\ hash_order \in {CycNodes, Reverse(CycNodes)}
    /\ source_id \in {CycNodes[1]} \cup AbsentIds
    /\ target_id \in Range(CycNodes) \cup AbsentIds
    /\ heuristic = [n \in Range(CycNodes) |-> 0]
    /\ node_data = [n \in Range(CycNodes) |-> EmptyDict]
    /\ pc = "dfs_call"
    /\ raised = "None"
    /\ all_paths = <<>>
    /\ IdleBF /\ IdleMST /\ IdleDFS /\ IdleFlow /\ IdleUF

InitSearch ==
    /\ algorithm = "ford_fulkerson"
    /\ nodes = FlowNodes
    /\ \/ edges \in Graphs(FlowSlots, SearchMaxEdges, 1..FlowMaxWeight)
       \/ edges = MkEdges(FlowSlots, 1..7, [i \in 1..7 |-> 1])
    /\ is_directed = TRUE
    /\ hash_order = FlowNodes
    /\ source_id = FlowNodes[1]
    /\ target_id \in {FlowNodes[6], FlowNodes[1]} \cup AbsentIds
    /\ heuristic = [n \in Range(FlowNodes) |-> 0]
    /\ node_data = [n \in Range(FlowNodes) |-> EmptyDict]
    /\ pc = "flow_call"
    /\ raised = "None"
    /\ all_paths = <<>>
    /\ IdleBF /\ IdleMST /\ IdleDFS /\ IdleFlow /\ IdleUF

InitTraversal == InitDfsTarget \/ InitSearch

NextTraversal ==
    \/ DfsTargetStart
    \/ DfsTargetVisit
    \/ DfsTargetReturn
    \/ SearchCreate
    \/ SearchStart
    \/ SearchVisit
    \/ SearchReturn
    \/ SearchUpdate

SpecTraversal == InitTraversal /\ [][NextTraversal]_vars

-----------------------------------------------------------------------------
(* UnionFindDict of union_find.py alone, created empty: elements enter
   parent_map only through insert, and find, union and is_same are called
   on inserted and on never-inserted elements alike.  `result` holds the
   method called, its arguments and, for find and is_same, what it
   returned (None being -1). *)

\* ufd.insert(element)
UfdInsert ==
    /\ pc = "ufd"
    /\ \E element \in Elements :
          /\ IF element \notin DOMAIN parent_map
             THEN /\ parent_map' = Put(parent_map, element, element)
                  /\ size_map' = Put(size_map, element, 1)
             ELSE UNCHANGED <<parent_map, size_map>>
          /\ result' = <<"insert", element>>
    /\ UNCHANGED <<graphVars, source_id, target_id, node_data, pc, raised,
                   all_paths, bfVars, mstVars, dfsVars, flowVars, parents, unions>>

\* ufd.find(element)
UfdFind ==
    /\ pc = "ufd"
    /\ \E element \in Elements :
          result' = <<"find", element, ufd_find(parent_map, element)>>
    /\ UNCHANGED <<graphVars, source_id, target_id, node_data, pc, raised,
                   all_paths, bfVars, mstVars, dfsVars, flowVars, parents,
                   parent_map, size_map, unions>>

\* ufd.union(x, y): size_map[None] is a KeyError.
UfdUnion ==
    /\ pc = "ufd"
    /\ \E x, y \in Elements :
          LET root_x == ufd_find(parent_map, x)
              root_y == ufd_find(parent_map, y)
              d == ufd_union(parent_map, size_map, x, y)
          IN /\ result' = <<"union", x, y>>
             /\ IF root_x # root_y /\ (root_x = -1 \/ root_y = -1)
                THEN /\ raised' = "KeyError"
                     /\ pc' = "error"
                     /\ UNCHANGED <<parent_map, size_map>>
                ELSE /\ parent_map' = d.parent_map
                     /\ size_map' = d.size_map
                     /\ UNCHANGED <<raised, pc>>
    /\ UNCHANGED <<graphVars, source_id, target_id, node_data, all_paths,
                   bfVars, mstVars, dfsVars, flowVars, parents, unions>>

\* ufd.is_same(x, y)
UfdIsSame ==
    /\ pc = "ufd"
    /\ \E x, y \in Elements :
          result' = <<"is_same", x, y, ufd_is_same(parent_map, x, y)>>
    /\ UNCHANGED <<graphVars, source_id, target_id, node_data, pc, raised,
                   all_paths, bfVars, mstVars, dfsVars, flowVars, parents,
                   parent_map, size_map, unions>>

\* UnionFindDict()
InitUnionFindDict ==
    /\ algorithm = "union_find"
    /\ nodes = <<>>
    /\ edges = <<>>
    /\ is_directed = FALSE
    /\ source_id = 0
    /\ target_id = 0
    /\ heuristic = <<>>
    /\ hash_order = <<>>
    /\ node_data = <<>>
    /\ pc = "ufd"
    /\ raised = "None"
    /\ all_paths = <<>>
    /\ IdleBF /\ IdleMST /\ IdleDFS /\ IdleFlow /\ IdleUF

NextUnionFindDict ==
    \/ UfdInsert
    \/ UfdFind
    \/ UfdUnion
    \/ UfdIsSame

SpecUnionFindDict == InitUnionFindDict /\ [][NextUnionFindDict]_vars

-----------------------------------------------------------------------------
(* prim.py alone, in the directed and the undirected mode. *)

InitPrim ==
    /\ algorithm = "prim"
    /\ edges \in Graphs(MstSlots, PrimMaxEdges, 1..MstMaxWeight)
    /\ nodes = MstNodes
    /\ is_directed \in BOOLEAN
    /\ hash_order = MstNodes
    /\ source_id = MstNodes[1]
    /\ target_id = MstNodes[1]
    /\ heuristic = [n \in Range(MstNodes) |-> 0]
    /\ node_data = [n \in Range(nodes) |-> EmptyDict]
    /\ pc = "kruskal_done"
    /\ raised = "None"
    /\ all_paths = <<>>
    /\ IdleBF /\ IdleMST /\ IdleDFS /\ IdleFlow /\ IdleUF

NextPrim ==
    \/ PrimStart
    \/ PrimStep
    \/ PrimReturn

SpecPrim == InitPrim /\ [][NextPrim]_vars

-----------------------------------------------------------------------------
(* bellman_ford.py on four nodes, one pass of the outer loop per step. *)

PassNodes == <<1, 2, 3, 4>>
\* Every ordered pair of distinct nodes.
PassSlots == << <<1, 2>>, <<2, 3>>, <<3, 4>>, <<1, 3>>, <<2, 4>>, <<1, 4>>,
                <<2, 1>>, <<3, 2>>, <<4, 3>>, <<3, 1>>, <<4, 2>>, <<4, 1>> >>

\* `for edge in get_edges(elements)` from the k-th edge on.
RECURSIVE bellman_ford_pass(_, _)
bellman_ford_pass(st, k) ==
    IF k > Len(edges) \/ st.raised # "None" THEN st
    ELSE bellman_ford_pass(
             bellman_ford_edge(st.node_data, st.updated, edges[k]), k + 1)

\* The body of `for i in range(len(nodes) - 1)`: updated = False, the loop
\* over the edges, and the break when nothing set the flag.
BellmanFordPass ==
    /\ pc = "pass"
    /\ pass_i < Len(nodes) - 1
    /\ LET st == bellman_ford_pass([node_data |-> node_data,
                                    updated |-> FALSE,
                                    raised |-> "None"], 1)
       IN /\ node_data' = st.node_data
          /\ updated' = st.updated
          /\ raised' = st.raised
          /\ pc' = IF st.raised # "None" THEN "error"
                   ELSE IF st.updated THEN "pass" ELSE "done"
          /\ pass_i' = IF st.raised = "None" /\ st.updated
                       THEN pass_i + 1 ELSE pass_i
    /\ UNCHANGED <<graphVars, ufVars, source_id, target_id, all_paths, edge_i,
                   mstVars, dfsVars, flowVars>>

InitPasses ==
    /\ algorithm = "bellman_ford"
    /\ nodes = PassNodes
    /\ edges \in Graphs(PassSlots, PassMaxEdges, 1..PassMaxWeight)
    /\ is_directed \in BOOLEAN
    /\ source_id \in {PassNodes[1]} \cup AbsentIds
    /\ target_id = PassNodes[1]
    /\ heuristic = [n \in Range(PassNodes) |-> 0]
    /\ hash_order = PassNodes
    /\ node_data = [n \in Range(PassNodes) |-> EmptyDict]
    /\ pc = "start"
    /\ raised = "None"
    /\ all_paths = <<>>
    /\ IdleBF /\ IdleMST /\ IdleDFS /\ IdleFlow /\ IdleUF

NextPasses ==
    \/ BellmanFordStep1
    \/ BellmanFordPass
    \/ BellmanFordReturn
    \/ GetBellmanFordPaths

SpecPasses == InitPasses /\ [][NextPasses]_vars

-----------------------------------------------------------------------------
(* bellman_ford.py on directed graphs with negative weights. *)

SignedWeights == ((0 - MaxNegative)..NegMaxWeight) \ {0}

InitSigned ==
    /\ algorithm = "bellman_ford"
    /\ nodes = SpNodes
    /\ edges \in Graphs(SpSlots, MaxEdges, SignedWeights)
    /\ is_directed = TRUE
    /\ source_id \in {SpNodes[1]} \cup AbsentIds
    /\ target_id = SpNodes[1]
    /\ heuristic = [n \in Range(SpNodes) |-> 0]
    /\ hash_order = SpNodes
    /\ node_data = [n \in Range(SpNodes) |-> EmptyDict]
    /\ pc = "start"
    /\ raised = "None"
    /\ all_paths = <<>>
    /\ IdleBF /\ IdleMST /\ IdleDFS /\ IdleFlow /\ IdleUF

SpecSigned == InitSigned /\ [][NextBellmanFord]_vars

-----------------------------------------------------------------------------
(* bellman_ford.py on edges whose data may lack the weight field. *)

\* The edges E, those at the indexes S without their weight field.
without_weight(E, S) ==
    [i \in DOMAIN E |->
        IF i \in S
        THEN [id |-> E[i].id, source |-> E[i].source, target |-> E[i].target]
        ELSE E[i]]

\* Every edge has weight 1 or no weight field.
InitWeightOptional ==
    /\ algorithm = "bellman_ford"
    /\ nodes = SpNodes
    /\ \E E \in Graphs(SpSlots, MaxEdges, {1}) :
          edges \in {without_weight(E, S) : S \in SUBSET DOMAIN E}
    /\ is_directed \in BOOLEAN
    /\ source_id \in {SpNodes[1]} \cup AbsentIds
    /\ target_id = SpNodes[1]
    /\ heuristic = [n \in Range(SpNodes) |-> 0]
    /\ hash_order = SpNodes
    /\ node_data = [n \in Range(SpNodes) |-> EmptyDict]
    /\ pc = "start"
    /\ raised = "None"
    /\ all_paths = <<>>
    /\ IdleBF /\ IdleMST /\ IdleDFS /\ IdleFlow /\ IdleUF

SpecWeightOptional == InitWeightOptional /\ [][NextBellmanFord]_vars

-----------------------------------------------------------------------------
(* dijkstra.py on the graph of figure 6.1, the elements of test_max_flow.
   The nodes s, A, B, C, D, E, F, G, t are 1 to 9; the edges keep their
   order and are numbered from 1. *)

Fig61Nodes == <<1, 2, 3, 4, 5, 6, 7, 8, 9>>

\* source, target, weight
Fig61Edges ==
    << <<1, 2, 5>>, <<1, 3, 7>>, <<2, 4, 8>>, <<2, 3, 3>>, <<3, 5, 3>>,
       <<3, 6, 2>>, <<4, 5, 4>>, <<4, 7, 2>>, <<5, 7, 1>>, <<5, 9, 4>>,
       <<5, 8, 4>>, <<6, 5, 3>>, <<6, 8, 3>>, <<7, 9, 7>>, <<8, 9, 5>> >>

\* calc_dijkstra from any node of the figure, in either mode.
InitFig61 ==
    /\ algorithm = "dijkstra"
    /\ nodes = Fig61Nodes
    /\ edges = [i \in DOMAIN Fig61Edges |->
                   [id |-> i, source |-> Fig61Edges[i][1],
                    target |-> Fig61Edges[i][2], weight |-> Fig61Edges[i][3]]]
    /\ is_directed \in BOOLEAN
    /\ source_id \in Range(Fig61Nodes)
    /\ target_id = Fig61Nodes[1]
    /\ heuristic = [n \in Range(Fig61Nodes) |-> 0]
    /\ hash_order = Fig61Nodes
    /\ node_data = [n \in Range(Fig61Nodes) |-> EmptyDict]
    /\ pc = "start"
    /\ raised = "None"
    /\ all_paths = <<>>
    /\ IdleBF /\ IdleMST /\ IdleDFS /\ IdleFlow /\ IdleUF

SpecFig61 == InitFig61 /\ [][NextDijkstra]_vars

-----------------------------------------------------------------------------
(* Graph notions the claims are stated in, over the input graph. *)

\* Some passable edge leads from a to b (in either direction when undirected).
Traversable(a, b) ==
    \E i \in DOMAIN edges : between(edges[i], a, b, is_directed)

\* The least weight of an edge from a to b.
MinW(a, b) ==
    LET ws == {Get(edges[i], "weight", 1) :
                 i \in {j \in DOMAIN edges : between(edges[j], a, b, is_directed)}}
    IN CHOOSE w \in ws : \A x \in ws : w <= x

IsPath(p) == \A i \in 1..(Len(p) - 1) : Traversable(p[i], p[i + 1])

RECURSIVE PathWeightUpTo(_, _)
PathWeightUpTo(p, i) ==
    IF i <= 1 THEN 0 ELSE PathWeightUpTo(p, i - 1) + MinW(p[i - 1], p[i])

PathWeight(p) == PathWeightUpTo(p, Len(p))

\* Every sequence of distinct nodes that is a path from a to b.
SimplePaths(a, b) ==
    {p \in UNION {[1..n -> NodeSet] : n \in 1..Len(nodes)} :
        /\ p[1] = a /\ p[Len(p)] = b
        /\ \A i, j \in DOMAIN p : i # j => p[i] # p[j]
        /\ IsPath(p)}

Reachable(a, b) == SimplePaths(a, b) # {}

\* The least total weight of a path from a to b (weights positive).
ShortestDistance(a, b) ==
    LET ws == {PathWeight(p) : p \in SimplePaths(a, b)}
    IN CHOOSE w \in ws : \A x \in ws : w <= x

ShortestPaths(a, b) ==
    {p \in SimplePaths(a, b) : PathWeight(p) = ShortestDistance(a, b)}

-----------------------------------------------------------------------------
(* Claims about calc_dijkstra and get_dijkstra_paths (SpecDijkstra). *)

\* Every returned path is connected and its weight is the target's label.
PathsMatchLabel ==
    \A i \in DOMAIN all_paths :
        /\ IsPath(all_paths[i])
        /\ PathWeight(all_paths[i]) = node_data[target_id].distance

\* C1 as stated: for every source and every target node, every path that
\* get_dijkstra_paths(target) returns is a connected sequence whose summed
\* minimum edge weights equal the target's final distance label.
C1_PathValidityAnyTarget ==
    (pc = "paths" /\ raised = "None") => PathsMatchLabel

\* C1 amended: for every target reachable from the source, every path that
\* get_dijkstra_paths(target) returns is a connected sequence whose summed
\* minimum edge weights equal the target's final distance label.
C1_PathValidityReachable ==
    (pc = "paths" /\ raised = "None" /\ Reachable(source_id, target_id))
        => PathsMatchLabel

\* Two tied paths were returned for a reachable target other than the source.
C1_Witness ==
    /\ pc = "paths" /\ raised = "None"
    /\ target_id # source_id /\ Reachable(source_id, target_id)
    /\ Len(all_paths) = 2
    /\ node_data[target_id].distance = 2

\* C2: for every target reachable from the source, get_dijkstra_paths(target)
\* returns exactly the minimum-total-weight source-to-target node sequences,
\* none missing, none non-optimal, none repeated.
C2_AllTiedOptimalPaths ==
    (pc = "paths" /\ has_node(target_id) /\ Reachable(source_id, target_id))
        => /\ raised = "None"
           /\ Range(all_paths) = ShortestPaths(source_id, target_id)
           /\ Cardinality(Range(all_paths)) = Len(all_paths)

\* C3: during a run no step raises the distance label of any node, the
\* source's included.
C3_LabelsNeverRise ==
    [][\A n \in NodeSet :
          ("distance" \in DOMAIN node_data[n] /\ "distance" \in DOMAIN node_data'[n])
              => node_data'[n].distance <= node_data[n].distance]_vars

-----------------------------------------------------------------------------
(* Claims about calc_a_star (SpecAStar). *)

ZeroHeuristic == \A n \in NodeSet : heuristic[n] = 0

\* h never exceeds the true remaining distance to the target.
Admissible ==
    \A n \in NodeSet :
        Reachable(n, target_id) => heuristic[n] <= ShortestDistance(n, target_id)

AStarReturned == pc = "done" /\ has_node(source_id) /\ has_node(target_id)

\* C4 as stated: with a heuristic that always returns 0, calc_a_star leaves
\* on every node the distance label calc_dijkstra leaves from the same
\* source.
C4_ZeroHeuristicAllLabels ==
    (AStarReturned /\ ZeroHeuristic)
        => \A n \in NodeSet :
              node_data[n].distance = calc_dijkstra(source_id)[n].distance

\* C4 amended: with a heuristic that always returns 0, calc_a_star leaves on
\* the target, and on every node it put into L before it stopped at the
\* target, the distance label calc_dijkstra leaves from the same source.
C4_ZeroHeuristicVisitedLabels ==
    (AStarReturned /\ ZeroHeuristic)
        => /\ node_data[target_id].visited
           /\ \A n \in NodeSet :
                 node_data[n].visited
                     => node_data[n].distance = calc_dijkstra(source_id)[n].distance

\* A zero-heuristic run that stopped at a target at distance 2, leaving a
\* labelled node outside L.
C4_Witness ==
    /\ AStarReturned /\ ZeroHeuristic
    /\ target_id # source_id
    /\ node_data[target_id].visited
    /\ node_data[target_id].distance = 2
    /\ \E n \in NodeSet :
          ~node_data[n].visited /\ node_data[n].distance < maxsize

\* C5: with positive weights and an admissible heuristic, when the target is
\* reachable every path get_paths reconstructs from the target is a
\* minimum-total-weight source-to-target path.
C5_AStarPathsShortest ==
    (/\ pc = "paths" /\ raised = "None"
     /\ has_node(source_id) /\ has_node(target_id)
     /\ Admissible
     /\ Reachable(source_id, target_id))
        => \A i \in DOMAIN all_paths :
              all_paths[i] \in ShortestPaths(source_id, target_id)

-----------------------------------------------------------------------------
(* Claims about kruskal and calc_prim (SpecMST). *)

RECURSIVE Component(_, _)
\* The nodes joined to those of S by the edges of the sequence E, either way.
Component(E, S) ==
    LET T == S \cup {E[i].target : i \in {j \in DOMAIN E : E[j].source \in S}}
               \cup {E[i].source : i \in {j \in DOMAIN E : E[j].target \in S}}
    IN IF T = S THEN S ELSE Component(E, T)

ConnectedGraph == Component(edges, {nodes[1]}) = NodeSet

\* No edge of E joins two nodes the other edges of E already join.
Acyclic(E) ==
    \A i \in DOMAIN E :
        E[i].target \notin
            Component(SelectSeq(E, LAMBDA e : e.id # E[i].id), {E[i].source})

RECURSIVE TotalWeight(_)
TotalWeight(E) ==
    IF E = <<>> THEN 0 ELSE Head(E).weight + TotalWeight(Tail(E))

\* The edges calc_prim marked visited.
PrimEdges == SelectSeq(edges, LAMBDA e : \E i \in DOMAIN edges :
                                            edges[i].id = e.id /\ edge_visited[i])

\* C6: on a connected undirected graph with n nodes kruskal returns n-1
\* edges, calc_prim marks n-1 edges visited, and the two edge sets have the
\* same total weight.
C6_MstEdgeCountAndWeight ==
    (pc = "prim_done" /\ ConnectedGraph)
        => /\ Len(minimum_spanning_tree_edges) = Len(nodes) - 1
           /\ Len(PrimEdges) = Len(nodes) - 1
           /\ TotalWeight(minimum_spanning_tree_edges) = TotalWeight(PrimEdges)

\* C7: kruskal keeps the candidate edge exactly when its endpoints are not
\* already connected by the edges kept before, and the kept edges are
\* acyclic after every step.
C7_KeptIffNotConnected ==
    [][(pc = "kruskal" /\ Len(sorted_edges) > 0)
          => LET edge == sorted_edges[1]
                 joined == edge.target \in
                              Component(minimum_spanning_tree_edges, {edge.source})
             IN /\ (minimum_spanning_tree_edges'
                       = Append(minimum_spanning_tree_edges, edge)) <=> ~joined
                /\ Acyclic(minimum_spanning_tree_edges')]_vars

-----------------------------------------------------------------------------
(* Claims about cycle_detection of dfs.py (SpecCycle). *)

\* The graph is an acyclic graph plus one edge between two nodes that graph
\* already connects.
OneEdgeAddedToAcyclic ==
    \E i \in DOMAIN edges :
        LET rest == SelectSeq(edges, LAMBDA e : e.id # edges[i].id)
        IN /\ Acyclic(rest)
           /\ edges[i].target \in Component(rest, {edges[i].source})

\* C8: in undirected mode cycle_detection returns False for every acyclic
\* graph, and True for every graph formed from an acyclic graph by adding a
\* single edge between two already-connected nodes.
C8_CycleDetectionSound ==
    (pc = "done" /\ ~is_directed)
        => /\ Acyclic(edges) => ~cycle
           /\ OneEdgeAddedToAcyclic => cycle

-----------------------------------------------------------------------------
(* Claims about calc_max_flow (SpecFlow). *)

\* The forward (non-residual) edges of the residual network.
ForwardEdges == SelectSeq(residual_network, LAMBDA e : ~e.is_residual)

RECURSIVE TotalFlow(_)
TotalFlow(E) == IF E = <<>> THEN 0 ELSE Head(E).flow + TotalFlow(Tail(E))

FlowInto(n) == TotalFlow(SelectSeq(ForwardEdges, LAMBDA e : e.target = n))

FlowOutOf(n) == TotalFlow(SelectSeq(ForwardEdges, LAMBDA e : e.source = n))

\* The residual network exists: calc_max_flow is in its loop, has returned,
\* or has raised.
NetworkBuilt == pc \in {"flow_loop", "done", "error"}

\* C9: in the residual network calc_max_flow returns, and after every
\* update_augmenting_network step before, every node other than source and
\* target has as much flow entering as leaving on the forward edges, and the
\* flow leaving the source equals the flow entering the target.
C9_FlowConservation ==
    NetworkBuilt
        => /\ \A n \in NodeSet \ {source_id, target_id} : FlowInto(n) = FlowOutOf(n)
           /\ FlowOutOf(source_id) = FlowInto(target_id)

\* The flow on the forward edge from a to b (one such edge at most here).
FlowOn(a, b) ==
    TotalFlow(SelectSeq(ForwardEdges, LAMBDA e : e.source = a /\ e.target = b))

\* The network 1->4->3->6, 1->2->3, 2->5->6 with unit capacities.
CrossedNetwork ==
    /\ {edges[i].id : i \in DOMAIN edges} = 1..7
    /\ \A i \in DOMAIN edges : edges[i].weight = 1
    /\ target_id = 6

\* The network right after the second update, which ran 1->4->3->2->5->6
\* and took the first path's unit back off the edge 2->3.
C9_Witness ==
    /\ CrossedNetwork
    /\ pc = "flow_loop" /\ iter = 2
    /\ FlowOn(2, 3) = 0 /\ FlowOn(4, 3) = 1 /\ FlowOn(2, 5) = 1
    /\ FlowInto(3) = 1 /\ FlowOutOf(3) = 1

RECURSIVE ResidualReach(_)
\* The nodes reachable from those of S over edges with current_weight > 0.
ResidualReach(S) ==
    LET T == S \cup {residual_network[k].target :
                        k \in {j \in DOMAIN residual_network :
                                  /\ residual_network[j].source \in S
                                  /\ residual_network[j].current_weight > 0}}
    IN IF T = S THEN S ELSE ResidualReach(T)

\* The capacity of the cut that has the nodes of S on the source's side.
CutCapacity(S) ==
    TotalWeight(SelectSeq(edges, LAMBDA e : e.source \in S /\ e.target \notin S))

MinCut ==
    LET cuts == {CutCapacity(S \cup {source_id}) :
                    S \in SUBSET (NodeSet \ {source_id, target_id})}
    IN CHOOSE c \in cuts : \A d \in cuts : c <= d

\* No two edges join the same unordered pair of nodes.
NoSharedPair ==
    \A i, j \in DOMAIN edges :
        i # j => {edges[i].source, edges[i].target}
                    # {edges[j].source, edges[j].target}

\* Some path of one or more edges with current_weight > 0 leads from the
\* source to the target.
ResidualPath ==
    target_id \in ResidualReach(
        {residual_network[k].target :
            k \in {j \in DOMAIN residual_network :
                      /\ residual_network[j].source = source_id
                      /\ residual_network[j].current_weight > 0}})

FlowIsMaximum == ~ResidualPath /\ FlowOutOf(source_id) = MinCut

\* C10 as stated: with positive capacities and no two edges over the same
\* unordered pair, when calc_max_flow(source, target) returns no
\* source-to-target path of edges with current_weight > 0 remains and the
\* flow leaving the source equals the capacity of a minimum source-target
\* cut, for every source and target.
C10_MaxFlowMinCutAnyPair ==
    (pc = "done" /\ NoSharedPair) => FlowIsMaximum

\* C10 amended: the same for a target other than the source.
C10_MaxFlowMinCut ==
    (pc = "done" /\ NoSharedPair /\ source_id # target_id) => FlowIsMaximum

\* calc_max_flow returned on the crossed network: two units, the capacity
\* of its minimum cut, reached only by rerouting the first path.
C10_Witness ==
    /\ CrossedNetwork
    /\ pc = "done" /\ iter = 2
    /\ FlowOutOf(source_id) = 2 /\ MinCut = 2
    /\ FlowOn(2, 3) = 0

\* The edge of the residual network with the given id.
EdgeById(id) == residual_network[index_of_id(residual_network, id)]

\* C11: in every state from create_residual_network on, no edge's
\* current_weight is negative, every forward edge has 0 <= flow <= weight
\* and current_weight = weight - flow, and the residual edge it points at
\* has current_weight equal to that flow.
C11_ResidualCapacity ==
    NetworkBuilt
        => /\ \A k \in DOMAIN residual_network :
                 residual_network[k].current_weight >= 0
           /\ \A k \in DOMAIN ForwardEdges :
                 LET e == ForwardEdges[k]
                 IN /\ 0 <= e.flow /\ e.flow <= e.weight
                    /\ e.current_weight = e.weight - e.flow
                    /\ EdgeById(e.pointing).is_residual
                    /\ EdgeById(e.pointing).pointing = e.id
                    /\ EdgeById(e.pointing).current_weight = e.flow

\* The crossed network after its second update: the edge 2->3 (id 4) is
\* empty again and its residual edge closed, while 4->3 (id 6) is full and
\* its residual edge open.
C11_Witness ==
    /\ CrossedNetwork
    /\ pc = "flow_loop" /\ iter = 2
    /\ EdgeById(4).flow = 0 /\ EdgeById(0 - 4).current_weight = 0
    /\ EdgeById(6).current_weight = 0 /\ EdgeById(0 - 6).current_weight = 1

-----------------------------------------------------------------------------
(* Claims about UnionFind and UnionFindDict (SpecUnionFind). *)

RECURSIVE UnitedWith(_)
\* The elements joined to those of S by the union calls made so far.
UnitedWith(S) ==
    LET T == S \cup UNION {p \in unions : p \cap S # {}}
    IN IF T = S THEN S ELSE UnitedWith(T)

\* C12: after any sequence of union calls, interleaved with find, is_same,
\* size and members calls, is_same(x, y) of UnionFind and of UnionFindDict
\* is true exactly when the unions connected x and y, directly or
\* transitively; so the two give the same answer.
C12_SameIffUnited ==
    pc = "uf"
        => \A x, y \in Elements :
              /\ uf_is_same(parents, x, y).value <=> (y \in UnitedWith({x}))
              /\ ufd_is_same(parent_map, x, y) <=> (y \in UnitedWith({x}))

\* Three unions joined the four elements, 1 and 2 only transitively, the
\* tree of UnionFind has a path of two parents, and the last call answered
\* True.
C12_Witness ==
    /\ pc = "uf"
    /\ {1, 2} \notin unions
    /\ Cardinality(unions) = 3
    /\ uf_is_same(parents, 1, 2).value /\ ufd_is_same(parent_map, 1, 2)
    /\ \E x \in Elements : parents[x] >= 0 /\ parents[parents[x]] >= 0
    /\ result = <<"is_same", TRUE>>

\* C13: group_count() of both objects goes down by exactly 1 in a union(x, y)
\* of two elements of distinct groups, and stays as it is in a union of two
\* elements of one group and in every find, is_same, size and members call.
C13_GroupCountSteps ==
    [][pc = "uf"
          => LET merged == \E p \in unions' \ unions :
                              \E x, y \in p : y \notin UnitedWith({x})
                 drop == IF merged THEN 1 ELSE 0
             IN /\ uf_group_count(parents') = uf_group_count(parents) - drop
                /\ ufd_group_count(parent_map')
                      = ufd_group_count(parent_map) - drop]_vars

\* All elements are in one group after unions of two groups of two, and a
\* members call has just left every element of UnionFind right under the
\* root, while UnionFindDict still has a path of two parents.
C13_Witness ==
    /\ pc = "uf"
    /\ Len(result) = 2 /\ result[1] = "members"
    /\ uf_group_count(parents) = 1
    /\ ufd_group_count(parent_map) = 1
    /\ \A x \in Elements : parents[x] < 0 \/ parents[parents[x]] < 0
    /\ \E x \in Elements : parent_map[x] # x /\ parent_map[parent_map[x]] # parent_map[x]

-----------------------------------------------------------------------------
(* Claims about the entry points' argument checks (SpecEntryPoints). *)

\* The entry point that takes source_id has been called: kruskal takes no
\* source, calc_prim is called after it.
SourceCallMade ==
    IF algorithm = "kruskal, prim"
    THEN pc \in {"prim", "prim_done", "error"}
    ELSE pc # "start"

\* The id the call was given matches no element.
CalledWithAbsentId ==
    \/ source_id \notin NodeSet
    \/ algorithm = "a_star" /\ target_id \notin NodeSet

\* No element carries a scratch record and no result exists.
NothingWritten ==
    /\ node_data = [n \in NodeSet |-> EmptyDict]
    /\ edge_visited = <<>>
    /\ all_paths = <<>>

\* C14: calc_dijkstra, calc_bellman_ford and calc_prim fail with an error
\* when source_id matches no element, and calc_a_star when source_id or
\* target_id matches none; the call fails before it writes any scratch
\* record, so the elements are as they were and no partial result exists.
C14_AbsentIdFailsClean ==
    (SourceCallMade /\ CalledWithAbsentId)
        => /\ pc = "error"
           /\ raised = "ValueError"
           /\ NothingWritten

\* calc_a_star has failed for a source that is a node and a target that is
\* none, on a graph with an edge leaving the source.
C14_Witness ==
    /\ algorithm = "a_star"
    /\ source_id \in NodeSet /\ target_id \notin NodeSet
    /\ \E i \in DOMAIN edges : edges[i].source = source_id
    /\ pc = "error" /\ raised = "ValueError"
    /\ NothingWritten

-----------------------------------------------------------------------------
(* Claims about the argument checks of calc_max_flow (SpecFlow). *)

\* C15: calc_max_flow raises, and returns no residual network, whenever
\* source_id or target_id is not a node of the graph.
C15_MaxFlowAbsentIdRaises ==
    pc = "done" => (source_id \in NodeSet /\ target_id \in NodeSet)

-----------------------------------------------------------------------------
(* Claims about the iteration cap of max_flow of dijkstra.py (SpecMaxFlow). *)

\* C16: the iteration cap never truncates silently: when the augmentation
\* loop has reached its cap and an augmenting path still exists, the call
\* fails with an error; it does not go on to return or print the flow, which
\* is not maximal then.
C16_CapNeverTruncates ==
    pc = "done" => ~ResidualPath

-----------------------------------------------------------------------------
(* Claims about calc_dijkstra on the graph of figure 6.1 (SpecFig61). *)

\* get_dijkstra_paths(t) has returned after calc_dijkstra from s on the
\* undirected graph.
Fig61FromSToT ==
    /\ pc = "paths"
    /\ ~is_directed
    /\ source_id = 1
    /\ target_id = 9

\* C17 as stated: on the undirected graph of figure 6.1 calc_dijkstra from s
\* labels t with distance 9 and get_dijkstra_paths(t) returns the path
\* [s, A, B, D, F, t].
C17_Distance9ViaABDF ==
    Fig61FromSToT
        => /\ node_data[9].distance = 9
           /\ all_paths = << <<1, 2, 3, 5, 7, 9>> >>

\* C17 amended: on the undirected graph of figure 6.1 calc_dijkstra from s
\* labels t with distance 14 and get_dijkstra_paths(t) returns the single
\* path [s, B, D, t].
C17_Distance14ViaBD ==
    Fig61FromSToT
        => /\ raised = "None"
           /\ node_data[9].distance = 14
           /\ all_paths = << <<1, 3, 5, 9>> >>

\* The run from s to t has ended with every node in L, C reached at
\* distance 13 both from A and from F.
C17_Witness ==
    /\ Fig61FromSToT
    /\ \A n \in NodeSet : node_data[n].visited
    /\ node_data[4].distance = 13
    /\ node_data[4].pointer_nodes = <<2, 7>>
    /\ Len(all_paths) = 1

-----------------------------------------------------------------------------
(* Claims about the pointers of the three shortest-path scripts
   (SpecEntryPoints). *)

\* The input edge with this id.
InputEdge(id) == edges[CHOOSE i \in DOMAIN edges : edges[i].id = id]

\* The edge with this id runs from a to b, in either direction when the
\* graph is undirected.
Joins(id, a, b) ==
    LET e == InputEdge(id)
    IN \/ e.source = a /\ e.target = b
       \/ ~is_directed /\ e.source = b /\ e.target = a

\* C18: in calc_dijkstra, calc_a_star and calc_bellman_ford, graphs with
\* parallel edges of equal weight included, every node's pointer_nodes and
\* pointer_edges have the same length and pointer_edges[i] is an edge from
\* pointer_nodes[i] to the node.
C18_PointersAligned ==
    algorithm \in {"dijkstra", "a_star", "bellman_ford"}
        => \A n \in DOMAIN node_data :
              "pointer_nodes" \in DOMAIN node_data[n]
                  => LET pn == node_data[n].pointer_nodes
                         pe == node_data[n].pointer_edges
                     IN /\ Len(pn) = Len(pe)
                        /\ \A i \in DOMAIN pn : Joins(pe[i], pn[i], n)

-----------------------------------------------------------------------------
(* Claims about edge weights in calc_bellman_ford (SpecBellmanFord). *)

\* C19: an edge of weight 0 is impassable: in calc_bellman_ford it never
\* becomes a pointer edge and never gives a node its distance.
C19_ZeroWeightImpassable ==
    \A n \in DOMAIN node_data :
        "pointer_edges" \in DOMAIN node_data[n]
            => \A i \in DOMAIN node_data[n].pointer_edges :
                  InputEdge(node_data[n].pointer_edges[i]).weight # 0

-----------------------------------------------------------------------------
(* Claims about edges without a weight field (SpecWeightOptional). *)

\* C20: an edge with no weight field counts as weight 1: calc_bellman_ford
\* raises no TypeError on it, and when it has returned every node reachable
\* from the source carries the shortest distance with the missing weights
\* read as 1.
C20_MissingWeightIsOne ==
    /\ raised # "TypeError"
    /\ pc = "done"
          => \A n \in NodeSet :
                Reachable(source_id, n)
                    => node_data[n].distance = ShortestDistance(source_id, n)

-----------------------------------------------------------------------------
(* Claims about the passes of calc_bellman_ford (SpecPasses). *)

\* C21: calc_bellman_ford runs no further pass after a pass that changed no
\* node's distance and no pointer list, and never runs more than
\* len(nodes) - 1 passes.
C21_StopsAtFirstIdlePass ==
    [][/\ (/\ pc = "pass"
           /\ pass_i' = pass_i + 1
           /\ node_data' = node_data)
          => pass_i' >= Len(nodes) - 1
       /\ pass_i' <= Len(nodes) - 1]_vars

-----------------------------------------------------------------------------
(* Claims about calc_bellman_ford on negative weights (SpecSigned). *)

\* A cycle of distinct nodes whose edges sum to less than 0; a self-loop of
\* negative weight is one.
NegativeCycle ==
    \E p \in UNION {[1..n -> NodeSet] : n \in 1..Len(nodes)} :
        /\ \A i, j \in DOMAIN p : i # j => p[i] # p[j]
        /\ IsPath(p)
        /\ Traversable(p[Len(p)], p[1])
        /\ PathWeight(p) + MinW(p[Len(p)], p[1]) < 0

\* C22: on every directed graph without a negative cycle, negative weights
\* allowed, calc_bellman_ford ends without an exception with every node
\* reachable from the source labelled with its shortest-path distance,
\* whatever the order of the edges in the element list.
C22_NegativeWeights ==
    (has_node(source_id) /\ ~NegativeCycle)
        => /\ pc # "paths" => raised = "None"
           /\ pc = "done"
                 => \A n \in NodeSet :
                       Reachable(source_id, n)
                           => node_data[n].distance
                                  = ShortestDistance(source_id, n)

-----------------------------------------------------------------------------
(* Claims about the labels of calc_prim (SpecMST). *)

\* calc_prim is running or has returned.
InPrim == algorithm = "kruskal, prim" /\ pc \in {"prim", "prim_done"}

\* C23: in calc_prim the distance of a node that joined the tree is the
\* weight of the one edge that attached it, not its cost from the source
\* along the tree.
C23_DistanceIsJoinCost ==
    InPrim
        => \A n \in NodeSet :
              "pointer_edges" \in DOMAIN node_data[n]
                  => node_data[n].distance
                         = InputEdge(node_data[n].pointer_edges[1]).weight

-----------------------------------------------------------------------------
(* Claims about the loop of calc_prim (SpecPrim). *)

\* calc_prim, run alone, is in its loop or has returned.
InPrimAlone == algorithm = "prim" /\ pc \in {"prim", "prim_done"}

\* Following pointer_nodes from n reaches the source within k steps.
RECURSIVE PointsBack(_, _)
PointsBack(n, k) ==
    \/ n = source_id
    \/ /\ k > 0
       /\ "pointer_nodes" \in DOMAIN node_data[n]
       /\ PointsBack(node_data[n].pointer_nodes[1], k - 1)

\* Exactly one endpoint of the edge is visited.
OneEndVisited(e) == node_data[e.source].visited # node_data[e.target].visited

\* The edge leads from a visited node to an unvisited one, read in either
\* direction when the graph is undirected.
LeadsOut(e) ==
    \/ node_data[e.source].visited /\ ~node_data[e.target].visited
    \/ /\ ~is_directed
       /\ node_data[e.target].visited /\ ~node_data[e.source].visited

\* One iteration of the loop: the edge at index i, of minimum weight in the
\* frontier, and its unvisited endpoint n become visited, n points at the
\* visited endpoint over that edge, and nothing else changes.
PrimIterationOf(Frontier(_)) ==
    \E i \in DOMAIN edges :
        LET e == edges[i]
            n == IF node_data[e.source].visited THEN e.target ELSE e.source
            m == IF node_data[e.source].visited THEN e.source ELSE e.target
        IN /\ Frontier(e)
           /\ \A j \in DOMAIN edges : Frontier(edges[j]) => e.weight <= edges[j].weight
           /\ ~edge_visited[i]
           /\ edge_visited' = [edge_visited EXCEPT ![i] = TRUE]
           /\ ~node_data[n].visited /\ node_data'[n].visited
           /\ node_data'[n].pointer_nodes = <<m>>
           /\ node_data'[n].pointer_edges = <<e.id>>
           /\ \A k \in NodeSet \ {n} : node_data'[k] = node_data[k]

\* The visited edges form a tree that contains the source and spans exactly
\* the visited nodes: one edge less than nodes, and every visited node other
\* than the source hangs by a visited edge on a visited node nearer to the
\* source.
PrimTree ==
    InPrimAlone
        => LET VN == {n \in NodeSet : node_data[n].visited}
               VE == {i \in DOMAIN edges : edge_visited[i]}
           IN /\ source_id \in VN
              /\ Cardinality(VE) = Cardinality(VN) - 1
              /\ \A i \in VE : {edges[i].source, edges[i].target} \subseteq VN
              /\ \A n \in VN \ {source_id} :
                    /\ Len(node_data[n].pointer_nodes) = 1
                    /\ Len(node_data[n].pointer_edges) = 1
                    /\ node_data[n].pointer_nodes[1] \in VN
                    /\ \E i \in VE :
                          /\ edges[i].id = node_data[n].pointer_edges[1]
                          /\ {edges[i].source, edges[i].target}
                                 = {n, node_data[n].pointer_nodes[1]}
              /\ \A n \in VN : PointsBack(n, Cardinality(VN))

\* The loop of calc_prim, with Frontier as the edges it chooses from: every
\* iteration is as PrimIterationOf says, the visited edges always form the
\* tree, and the loop ends without an exception exactly when a node is
\* unvisited and the frontier is empty, or every node is visited.
PrimLoop(Frontier(_)) ==
    /\ (pc = "prim" /\ pc' = "prim") => PrimIterationOf(Frontier)
    /\ (pc = "prim" /\ pc' = "prim_done")
          => /\ raised' = "None"
             /\ \/ \A n \in NodeSet : node_data[n].visited
                \/ \A j \in DOMAIN edges : ~Frontier(edges[j])
    /\ (pc = "prim" /\ \A j \in DOMAIN edges : ~Frontier(edges[j]))
          => pc' = "prim_done"

\* C24 as stated: every iteration of calc_prim's loop selects an edge of
\* minimum weight among the edges with exactly one endpoint visited, marks it
\* and its unvisited endpoint visited and gives that node one pointer_node
\* and one pointer_edge; the visited edges always form a tree on the visited
\* nodes; the loop stops without error when no such edge is left.
C24_MinOfOneEndVisited ==
    []PrimTree /\ [][PrimLoop(OneEndVisited)]_vars

\* C24 amended: the same, the frontier being the edges that lead from a
\* visited node to an unvisited one, in either direction only when the graph
\* is undirected.
C24_MinOfLeadingOut ==
    []PrimTree /\ [][PrimLoop(LeadsOut)]_vars

\* In directed mode two iterations have taken two edges of different weight
\* that leave the source: three nodes are in the tree.
C24_Witness ==
    /\ InPrimAlone
    /\ is_directed
    /\ Cardinality({n \in NodeSet : node_data[n].visited}) = 3
    /\ \E i, j \in DOMAIN edges :
          /\ edge_visited[i] /\ edge_visited[j]
          /\ edges[i].weight < edges[j].weight
          /\ edges[i].source = source_id /\ edges[j].source = source_id

-----------------------------------------------------------------------------
(* Claims about union by size (SpecUnionFind). *)

\* The number of elements the unions made so far have joined to x.
GroupSize(x) == Cardinality(UnitedWith({x}))

\* C25: size(x) and len(members(x)) are the number of elements united with
\* x, in UnionFind by -parents[root] and in UnionFindDict by size_map[root];
\* and union(x, y) of two distinct sets hangs the root of the smaller set
\* right under the root of the larger one, the root of x's set staying on
\* equal sizes, and leaves the sum of the two sizes at the surviving root.
C25_UnionBySize ==
    pc = "uf"
        => /\ \A x \in Elements :
                 /\ uf_size(parents, x).value = GroupSize(x)
                 /\ Len(uf_members(parents, x).value) = GroupSize(x)
                 /\ size_map[ufd_find(parent_map, x)] = GroupSize(x)
                 /\ Len(ufd_members(parent_map, x)) = GroupSize(x)
           /\ \A x, y \in Elements :
                 y \notin UnitedWith({x})
                     => LET big == IF GroupSize(x) >= GroupSize(y) THEN x ELSE y
                            small == IF GroupSize(x) >= GroupSize(y) THEN y ELSE x
                            root == uf_find(parents, big).root
                            under == uf_find(parents, small).root
                            after == uf_union(parents, x, y)
                            key == ufd_find(parent_map, big)
                            d == ufd_union(parent_map, size_map, x, y)
                        IN /\ after[under] = root
                           /\ 0 - after[root] = GroupSize(x) + GroupSize(y)
                           /\ d.parent_map[ufd_find(parent_map, small)] = key
                           /\ d.parent_map[key] = key
                           /\ d.size_map[key] = GroupSize(x) + GroupSize(y)

\* A union has just joined a set of one element and a set of three, after a
\* union of two sets of one element each.
C25_Witness ==
    /\ pc = "uf"
    /\ result = <<"union", "None">>
    /\ \A x \in Elements : GroupSize(x) = UfN
    /\ \E r \in Elements : parents[r] = 0 - UfN /\ size_map[r] = UfN
    /\ Cardinality(unions) = 3
    /\ \E x \in Elements : \A p \in unions : x \in p

-----------------------------------------------------------------------------
(* Claims about update_augmenting_network (SpecFlow). *)

\* C26: on positive integer weights with at most one edge per ordered pair
\* of nodes (every graph of SpecFlow), calc_max_flow never raises "has no
\* capacity" or "is not found": every [from, to] step of a path of
\* search_augmenting_flow resolves to an edge with current_weight > 0.
C26_PathStepsHaveCapacity ==
    /\ raised \notin {"ValueError: edge has no capacity",
                      "ValueError: edge is not found"}
    /\ pc = "flow_loop"
          => \A i \in DOMAIN augmenting_paths :
                LET k == find_edge(residual_network, augmenting_paths[i][1],
                                   augmenting_paths[i][2])
                IN k # 0 /\ residual_network[k].current_weight > 0

-----------------------------------------------------------------------------
(* Claims about the pointers left by calc_dijkstra and calc_bellman_ford
   (SpecEntryPoints). *)

\* The node has no predecessor: pointer_nodes is absent or empty.
NoPointer(n) ==
    \/ "pointer_nodes" \notin DOMAIN node_data[n]
    \/ node_data[n].pointer_nodes = <<>>

\* C27: after a completed run of calc_dijkstra or calc_bellman_ford a node
\* has no predecessor exactly when it is the source or is unreachable from
\* the source.
C27_NoPointerIffTerminus ==
    (algorithm \in {"dijkstra", "bellman_ford"} /\ pc = "done")
        => \A n \in NodeSet :
              NoPointer(n) <=> (n = source_id \/ ~Reachable(source_id, n))

\* The pointer_nodes of n as a set.
PointersOf(n) == Range(Get(node_data[n], "pointer_nodes", <<>>))

RECURSIVE PointerClosure(_)
\* The nodes reached from those of S by following pointer_nodes.
PointerClosure(S) ==
    LET T == S \cup UNION {PointersOf(n) : n \in S}
    IN IF T = S THEN S ELSE PointerClosure(T)

\* calc_dijkstra, calc_bellman_ford or calc_prim has returned.
RunCompleted ==
    \/ algorithm \in {"dijkstra", "bellman_ford"} /\ pc \in {"done", "paths"}
    \/ algorithm = "kruskal, prim" /\ pc = "prim_done"

\* C28: after a completed run of calc_dijkstra, calc_bellman_ford or
\* calc_prim, following pointer_nodes from a node never comes back to a node
\* already passed, and get_dijkstra_paths and get_bellman_ford_paths return
\* without RecursionError.
C28_PointersNeverRevisit ==
    RunCompleted
        => /\ \A n \in NodeSet : n \notin PointerClosure(PointersOf(n))
           /\ raised # "RecursionError"

-----------------------------------------------------------------------------
(* Claims about the searches with a target (SpecTraversal). *)

\* The node the while loop is about to process.
CurrentNode == todo_list[Len(todo_list)]

\* The nodes next to n: over a passable edge of the graph for dfs, over an
\* edge of the residual network with current_weight > 0 for
\* search_augmenting_flow.
NextTo(n) ==
    IF algorithm = "dfs"
    THEN {m \in NodeSet : Traversable(n, m)}
    ELSE {residual_network[k].target :
             k \in {j \in DOMAIN residual_network :
                       /\ residual_network[j].source = n
                       /\ residual_network[j].current_weight > 0}}

RECURSIVE NextToClosure(_)
\* The nodes reachable from those of S.
NextToClosure(S) ==
    LET T == S \cup UNION {NextTo(n) : n \in S}
    IN IF T = S THEN S ELSE NextToClosure(T)

RECURSIVE LeadsBackToStart(_, _)
\* Following pointer_node from n reaches the start node within k steps, each
\* step over a traversable edge from the pointer node.
LeadsBackToStart(n, k) ==
    \/ n = source_id
    \/ /\ k > 0
       /\ "pointer_node" \in DOMAIN node_data[n]
       /\ n \in NextTo(node_data[n].pointer_node)
       /\ LeadsBackToStart(node_data[n].pointer_node, k - 1)

\* The search has returned.
SearchOver == pc \in {"dfs_done", "search_done"}

\* C29: in dfs(start, target) and in search_augmenting_flow(source, target),
\* the iteration that processes a node next to the target sets the target's
\* pointer_node to that node and ends the search; and when the search is over
\* and the target is reachable, pointer_node leads from the target back to
\* the start node over traversable edges in at most len(nodes) steps.
C29_StopsAtTarget ==
    /\ [][(/\ pc \in {"dfs_loop", "search_loop"}
           /\ Len(todo_list) > 0
           /\ target_id \in NextTo(CurrentNode))
             => /\ node_data'[target_id].pointer_node = CurrentNode
                /\ SearchOver']_vars
    /\ []((SearchOver /\ target_id \in NextToClosure({source_id}))
             => LeadsBackToStart(target_id, Len(nodes)))

\* search_augmenting_flow has stopped at the target, whose pointer_node is
\* set, and the path of four steps or more that it returns runs over a
\* residual edge.
C29_Witness ==
    /\ pc = "search_done"
    /\ Len(augmenting_paths) >= 4
    /\ "pointer_node" \in DOMAIN node_data[target_id]
    /\ \E i \in DOMAIN augmenting_paths :
          \E k \in DOMAIN residual_network :
              /\ residual_network[k].is_residual
              /\ residual_network[k].current_weight > 0
              /\ residual_network[k].source = augmenting_paths[i][1]
              /\ residual_network[k].target = augmenting_paths[i][2]

-----------------------------------------------------------------------------
(* Claims about never-inserted elements of UnionFindDict
   (SpecUnionFindDict). *)

\* C30: find, union and is_same of UnionFindDict take an element never
\* passed to insert as a set of its own: no call raises, union of an
\* inserted element with a never-inserted one included, and is_same of two
\* distinct never-inserted elements is false.
C30_NeverInsertedIsSingleton ==
    /\ raised = "None"
    /\ (/\ Len(result) > 0
        /\ result[1] = "is_same"
        /\ result[2] # result[3]
        /\ result[2] \notin DOMAIN parent_map
        /\ result[3] \notin DOMAIN parent_map)
          => result[4] = FALSE

====
